---- MODULE Spec2Model ----
(***************************************************************************)
(* A model of gosible: the inventory builder (CreateInventoryFile,         *)
(* getUniqueInventoryFilename, fileExists) and instance discovery          *)
(* (DiscoverInstances) of package inventory.                               *)
(*                                                                         *)
(* Text is modelled as a sequence of atoms.  An atom is either a single    *)
(* character ("\n", ",", " ", a digit, a letter) or a literal piece of     *)
(* text that is always written the same way ("Running", "  hosts:").  The  *)
(* string operations of the code (Split, TrimSpace, Fields, Atoi, Sprintf) *)
(* are defined on these sequences.                                         *)
(***************************************************************************)
EXTENDS Integers, Sequences, FiniteSets, TLC

VARIABLES
    files,             \* the file system: path -> content, for the paths that exist
    statErr,           \* TRUE when os.Stat fails in the directory with an error other than ENOENT
    pc,                \* per invocation of CreateInventoryFile: where it stands
    hosts,             \* per invocation: the hosts argument
    filename,          \* per invocation: getUniqueInventoryFilename's filename
    counter,           \* per invocation: getUniqueInventoryFilename's counter
    inventoryFile,     \* per invocation: the path the probe returned
    inventoryContent,  \* per invocation: the document built
    ret,               \* per invocation: the (path, error) returned
    nMkdir,            \* per invocation: calls of os.MkdirAll
    nStat,             \* per invocation: calls of os.Stat
    nWrite,            \* per invocation: calls of os.WriteFile
    fault,             \* per invocation: the call the file system failed, if any
    calls,             \* invocations started so far
    files0,            \* the file system before the first invocation
    returned,          \* the paths returned with no error, each with its document, in order
    dpc,               \* DiscoverInstances: where it stands
    instances,         \* DiscoverInstances: the candidates collected
    envA,              \* what `multipass list` did: its error and the rows it printed
    envB,              \* what `docker ps` did: its error and the lines it printed
    invoked,           \* the commands run through execCommand, in order
    typed,             \* what the user types at the selection prompt
    stdin,             \* what the reader has still to deliver
    input,             \* DiscoverInstances: the line read, trimmed
    selected,          \* DiscoverInstances: the list returned
    nPrompt,           \* selection prompts printed
    inventoryDir,      \* createInventoryFile: the directory read after discovery
    histFile,          \* ~/.gosible_history: whether it exists, and its text
    histReadable,      \* FALSE when reading the history fails with an error other than ENOENT
    histInit,          \* the lines the history file held at first
    appended,          \* the entries given to saveNewHistoryEntry, in order
    nWarn,             \* warnings printed about the history
    rpc,               \* runPlaybook: where it stands
    flow,              \* runPlaybook: "reuse" of a history entry, or "fresh"
    historyEntries,    \* runPlaybook: the entries loadHistory returned
    runInventory,      \* runPlaybook: inventoryFile
    runPlaybooks,      \* runPlaybook: playbooks
    runDryRun,         \* runPlaybook: dryRun
    pbIdx,             \* runPlaybook: the place of the loop over playbooks
    reIdx,             \* runPlaybook: the place of the loop of the re-run
    execLog,           \* the commands ExecuteAnsiblePlaybook has run, in order
    saveLog,           \* for each save of the run: its pass and the commands run before it
    asked              \* for each prompt to run again: the commands run before it, and whether yes was read

builderVars == <<files, statErr, pc, hosts, filename, counter, inventoryFile,
                 inventoryContent, ret, nMkdir, nStat, nWrite, fault, calls, files0, returned>>

discVars == <<dpc, instances, envA, envB, invoked, typed, stdin, input, selected, nPrompt,
              inventoryDir>>

histVars == <<histFile, histReadable, histInit, appended, nWarn>>

runVars == <<rpc, flow, historyEntries, runInventory, runPlaybooks, runDryRun, pbIdx, reIdx,
             execLog, saveLog, asked>>

vars == <<builderVars, discVars, histVars, runVars>>

-----------------------------------------------------------------------------
(* Bounds *)

\* Longest hosts argument of the document specification.
MaxHosts == 2
\* Highest number N of a pre-existing invN.yml.
MaxPre == 2
\* Invocations of CreateInventoryFile in one behaviour.
MaxCalls == 2

-----------------------------------------------------------------------------
(* Strings *)

\* A Go string holding the text s, "" being the empty string.
S(s) == IF s = "" THEN <<>> ELSE <<s>>

RECURSIVE Concat(_)
\* The concatenation of a sequence of strings.
Concat(ss) == IF ss = <<>> THEN <<>> ELSE Head(ss) \o Concat(Tail(ss))

\* The prefix of s of length k.
Prefix(s, k) == SubSeq(s, 1, k)

\* The sequences without repetition that enumerate the set K.
Perms(K) == {o \in [1..Cardinality(K) -> K] : \A i, j \in DOMAIN o : o[i] = o[j] => i = j}

RECURSIVE Digits(_)
\* strconv's decimal form of n >= 0, as fmt.Sprintf("%d") writes it.
Digits(n) ==
    LET d == <<"0", "1", "2", "3", "4", "5", "6", "7", "8", "9">>
    IN  IF n < 10 THEN <<d[n + 1]>> ELSE Digits(n \div 10) \o <<d[(n % 10) + 1]>>

\* The places of s, in order, that hold a character of the set C.
Places(s, C) == SelectSeq([i \in DOMAIN s |-> i] \o <<>>, LAMBDA i : s[i] \in C)

\* (A function written [i \in 1..n |-> e] is made a tuple by \o <<>>.)
\* strings.Split(s, sep) for a separator of one character: the pieces between
\* the separators, one more than there are separators.
Split(s, sep) ==
    LET cut == <<0>> \o Places(s, {sep}) \o <<Len(s) + 1>>
    IN  [k \in 1..(Len(cut) - 1) |-> SubSeq(s, cut[k] + 1, cut[k + 1] - 1)] \o <<>>

\* The characters unicode.IsSpace holds of, among those of the model.
WhiteSpace == {" ", "\t", "\n", "\r", "\f"}

\* strings.TrimSpace(s): s without its leading and trailing white space.
TrimSpace(s) ==
    LET ink == SelectSeq([i \in DOMAIN s |-> i] \o <<>>, LAMBDA i : s[i] \notin WhiteSpace)
    IN  IF ink = <<>> THEN <<>> ELSE SubSeq(s, ink[1], ink[Len(ink)])

\* strings.Fields(s): the maximal runs of s without white space, in order.
Fields(s) ==
    LET idx == [i \in DOMAIN s |-> i] \o <<>>
        ink(i) == i \in DOMAIN s /\ s[i] \notin WhiteSpace
        first == SelectSeq(idx, LAMBDA i : ink(i) /\ ~ink(i - 1))
        last == SelectSeq(idx, LAMBDA i : ink(i) /\ ~ink(i + 1))
    IN  [k \in DOMAIN first |-> SubSeq(s, first[k], last[k])] \o <<>>

\* The decimal digits and their values.
DigitChars == <<"0", "1", "2", "3", "4", "5", "6", "7", "8", "9">>
DigitValue(c) == (CHOOSE i \in DOMAIN DigitChars : DigitChars[i] = c) - 1

RECURSIVE Decimal(_)
\* The number a sequence of digits stands for.
Decimal(ds) ==
    IF ds = <<>> THEN 0
    ELSE 10 * Decimal(SubSeq(ds, 1, Len(ds) - 1)) + DigitValue(ds[Len(ds)])

\* strconv.Atoi(s): an optional sign, then one digit or more and nothing else;
\* anything else is an error.
Atoi(s) ==
    LET signed == s # <<>> /\ s[1] \in {"+", "-"}
        ds == IF signed THEN Tail(s) ELSE s
        ok == ds # <<>> /\ \A i \in DOMAIN ds : \E d \in DOMAIN DigitChars : DigitChars[d] = ds[i]
    IN  IF ~ok THEN [err |-> TRUE, i |-> 0]
        ELSE [err |-> FALSE, i |-> IF s[1] = "-" THEN 0 - Decimal(ds) ELSE Decimal(ds)]

\* reader.ReadString('\n'): the text up to the first newline and with it, or
\* all the text when it has no newline; and what the reader is left with.
ReadString(text) ==
    LET nl == Places(text, {"\n"})
    IN  IF nl = <<>> THEN [line |-> text, rest |-> <<>>]
        ELSE [line |-> Prefix(text, nl[1]), rest |-> SubSeq(text, nl[1] + 1, Len(text))]


-----------------------------------------------------------------------------
(* The inventory builder *)

Procs == {1, 2}

\* The directory argument; every invocation modelled uses the same one.
directory == "dir"

\* filepath.Join(directory, name)
JoinPath(dir, name) == <<dir, "/">> \o name

\* filepath.Join(directory, baseName+ext)
BaseFilename == JoinPath(directory, <<"inv", ".yml">>)

\* filepath.Join(directory, fmt.Sprintf("%s%d%s", baseName, counter, ext))
NumberedFilename(n) == JoinPath(directory, <<"inv">> \o Digits(n) \o <<".yml">>)

\* fileExists answering no for every name.
fileExists_Never(name) == FALSE

\* fileExists: Stat's error is not "does not exist".
fileExists(name) == statErr \/ name \in DOMAIN files

\* ungroupedHosts without the test of the group: every host is collected.
ungroupedHosts_NoTest(hs) == hs

\* The hosts with an empty group, in input order.
ungroupedHosts(hs) == SelectSeq(hs, LAMBDA h : h.Group = "")

\* groups as a map that keeps one host per host name in each group: the last.
groups_KeyedByHost(hs) ==
    [g \in {hs[i].Group : i \in DOMAIN hs} \ {""} |->
        LET gh == SelectSeq(hs, LAMBDA h : h.Group = g)
            keep == {i \in DOMAIN gh : \A j \in DOMAIN gh : gh[j].Host = gh[i].Host => j <= i}
        IN  SelectSeq(gh, LAMBDA h : \E i \in keep : gh[i] = h)]

\* groups with every host put before the hosts already in its group.
groups_NewestFirst(hs) ==
    [g \in {hs[i].Group : i \in DOMAIN hs} \ {""} |->
        LET gh == SelectSeq(hs, LAMBDA h : h.Group = g)
        IN  [i \in DOMAIN gh |-> gh[Len(gh) + 1 - i]] \o <<>>]

\* The map from each non-empty group label to its hosts, in input order.
groups(hs) ==
    [g \in {hs[i].Group : i \in DOMAIN hs} \ {""} |->
        SelectSeq(hs, LAMBDA h : h.Group = g)]

\* The text written first.
Header == <<"---", "\n", "all:", "\n", "  hosts:", "\n">>

\* UngroupedHostText without the test of SSHPort: the port line is always written.
UngroupedHostText_PortAlways(h) ==
    <<"    ">> \o S(h.Host) \o <<":", "\n">>
    \o <<"      ansible_user: ">> \o S(h.SSHUser) \o <<"\n">>
    \o <<"      ansible_ssh_private_key_file: ">> \o S(h.SSHKeyFile) \o <<"\n">>
    \o <<"      ansible_port: ">> \o S(h.SSHPort) \o <<"\n">>
    \o (IF h.Become THEN <<"      ansible_become: ", "true", "\n">> ELSE <<>>)

\* The lines of one host under `all: hosts`.
UngroupedHostText(h) ==
    <<"    ">> \o S(h.Host) \o <<":", "\n">>
    \o <<"      ansible_user: ">> \o S(h.SSHUser) \o <<"\n">>
    \o <<"      ansible_ssh_private_key_file: ">> \o S(h.SSHKeyFile) \o <<"\n">>
    \o (IF h.SSHPort # "" THEN <<"      ansible_port: ">> \o S(h.SSHPort) \o <<"\n">> ELSE <<>>)
    \o (IF h.Become THEN <<"      ansible_become: ", "true", "\n">> ELSE <<>>)

\* The lines of one host under a group.
GroupedHostText(h) ==
    <<"        ">> \o S(h.Host) \o <<":", "\n">>
    \o <<"          ansible_user: ">> \o S(h.SSHUser) \o <<"\n">>
    \o <<"          ansible_ssh_private_key_file: ">> \o S(h.SSHKeyFile) \o <<"\n">>
    \o (IF h.SSHPort # "" THEN <<"          ansible_port: ">> \o S(h.SSHPort) \o <<"\n">> ELSE <<>>)
    \o (IF h.Become THEN <<"          ansible_become: ", "true", "\n">> ELSE <<>>)

\* The lines of one group: its name, `hosts:`, its hosts.
GroupText(groupName, groupHosts) ==
    <<"    ">> \o S(groupName) \o <<":", "\n", "      hosts:", "\n">>
    \o Concat([i \in DOMAIN groupHosts |-> GroupedHostText(groupHosts[i])])

\* ChildrenText without the test of len(groups): `children:` is always written.
ChildrenText_NoTest(gs, order) ==
    <<"\n", "  children:", "\n">>
    \o Concat([i \in DOMAIN order |-> GroupText(order[i], gs[order[i]])])

\* The `children:` section, the groups visited in the order `order`.
ChildrenText(gs, order) ==
    IF Cardinality(DOMAIN gs) > 0
    THEN <<"\n", "  children:", "\n">>
         \o Concat([i \in DOMAIN order |-> GroupText(order[i], gs[order[i]])])
    ELSE <<>>

\* Document with nothing written for an empty list of hosts.
Document_EmptyForNoHosts(hs, order) ==
    IF hs = <<>> THEN <<>>
    ELSE Header
         \o Concat([i \in DOMAIN ungroupedHosts(hs) |-> UngroupedHostText(ungroupedHosts(hs)[i])])
         \o ChildrenText(groups(hs), order)

\* The document of hs when the map of groups is ranged over in the order `order`.
Document(hs, order) ==
    Header
    \o Concat([i \in DOMAIN ungroupedHosts(hs) |-> UngroupedHostText(ungroupedHosts(hs)[i])])
    \o ChildrenText(groups(hs), order)

\* os.WriteFile's effect on the file system: path now holds c.
WriteAt(fs, path, c) ==
    [x \in DOMAIN fs \cup {path} |-> IF x = path THEN c ELSE fs[x]]

\* The (path, error) pairs CreateInventoryFile returns.
NoErr == "nil"
MkdirErr == "error creating directory"
WriteErr == "error writing inventory file"
NoRet == [path |-> <<>>, err |-> "none yet"]

\* The probe loop is followed for at most this many increments of counter.
ProbeCap == MaxPre + MaxCalls + 2

\* A caller invokes CreateInventoryFile(directory, hs).
Call(p, Inputs, limit) ==
    /\ pc[p] = "idle"
    /\ calls < limit
    /\ \E hs \in Inputs : hosts' = [hosts EXCEPT ![p] = hs]
    /\ pc' = [pc EXCEPT ![p] = "mkdir"]
    /\ calls' = calls + 1
    /\ filename' = [filename EXCEPT ![p] = <<>>]
    /\ counter' = [counter EXCEPT ![p] = 0]
    /\ inventoryFile' = [inventoryFile EXCEPT ![p] = <<>>]
    /\ inventoryContent' = [inventoryContent EXCEPT ![p] = <<>>]
    /\ ret' = [ret EXCEPT ![p] = NoRet]
    /\ nMkdir' = [nMkdir EXCEPT ![p] = 0]
    /\ nStat' = [nStat EXCEPT ![p] = 0]
    /\ nWrite' = [nWrite EXCEPT ![p] = 0]
    /\ fault' = [fault EXCEPT ![p] = "none"]
    /\ UNCHANGED <<files, statErr>>
    /\ UNCHANGED <<files0, returned, discVars, histVars, runVars>>

\* MkdirAll with its error dropped: the invocation goes on.
MkdirAll_ErrorDropped(p, faults) ==
    /\ pc[p] = "mkdir"
    /\ nMkdir' = [nMkdir EXCEPT ![p] = @ + 1]
    /\ \E ok \in (IF faults THEN BOOLEAN ELSE {TRUE}) :
          fault' = [fault EXCEPT ![p] = IF ok THEN @ ELSE "mkdir"]
    /\ pc' = [pc EXCEPT ![p] = "unique"]
    /\ UNCHANGED <<files, statErr, hosts, filename, counter, inventoryFile,
                   inventoryContent, ret, nStat, nWrite, calls>>
    /\ UNCHANGED <<files0, returned, discVars, histVars, runVars>>

\* os.MkdirAll(directory, 0o755): on an error, return "" and the error.
MkdirAll(p, faults) ==
    /\ pc[p] = "mkdir"
    /\ nMkdir' = [nMkdir EXCEPT ![p] = @ + 1]
    /\ \E ok \in (IF faults THEN BOOLEAN ELSE {TRUE}) :
          /\ fault' = [fault EXCEPT ![p] = IF ok THEN @ ELSE "mkdir"]
          /\ IF ok
             THEN /\ pc' = [pc EXCEPT ![p] = "unique"]
                  /\ ret' = ret
             ELSE /\ pc' = [pc EXCEPT ![p] = "done"]
                  /\ ret' = [ret EXCEPT ![p] = [path |-> <<>>, err |-> MkdirErr]]
    /\ UNCHANGED <<files, statErr, hosts, filename, counter, inventoryFile,
                   inventoryContent, nStat, nWrite, calls>>
    /\ UNCHANGED <<files0, returned, discVars, histVars, runVars>>

\* UniqueStart with counter starting at 0: the first numbered name is inv0.yml.
UniqueStart_FromZero(p) ==
    /\ pc[p] = "unique"
    /\ filename' = [filename EXCEPT ![p] = BaseFilename]
    /\ counter' = [counter EXCEPT ![p] = 0]
    /\ pc' = [pc EXCEPT ![p] = "probe"]
    /\ UNCHANGED <<files, statErr, hosts, inventoryFile, inventoryContent, ret,
                   nMkdir, nStat, nWrite, fault, calls>>
    /\ UNCHANGED <<files0, returned, discVars, histVars, runVars>>

\* getUniqueInventoryFilename, up to its loop: filename is inv.yml, counter is 1.
UniqueStart(p) ==
    /\ pc[p] = "unique"
    /\ filename' = [filename EXCEPT ![p] = BaseFilename]
    /\ counter' = [counter EXCEPT ![p] = 1]
    /\ pc' = [pc EXCEPT ![p] = "probe"]
    /\ UNCHANGED <<files, statErr, hosts, inventoryFile, inventoryContent, ret,
                   nMkdir, nStat, nWrite, fault, calls>>
    /\ UNCHANGED <<files0, returned, discVars, histVars, runVars>>

\* One test of the loop `for fileExists(filename)`: the body, or the return.
Probe(p) ==
    /\ pc[p] = "probe"
    /\ nStat[p] < ProbeCap
    /\ nStat' = [nStat EXCEPT ![p] = @ + 1]
    /\ IF fileExists(filename[p])
       THEN /\ filename' = [filename EXCEPT ![p] = NumberedFilename(counter[p])]
            /\ counter' = [counter EXCEPT ![p] = @ + 1]
            /\ UNCHANGED <<pc, inventoryFile>>
       ELSE /\ inventoryFile' = [inventoryFile EXCEPT ![p] = filename[p]]
            /\ pc' = [pc EXCEPT ![p] = "build"]
            /\ UNCHANGED <<filename, counter>>
    /\ UNCHANGED <<files, statErr, hosts, inventoryContent, ret, nMkdir, nWrite, fault, calls>>
    /\ UNCHANGED <<files0, returned, discVars, histVars, runVars>>

\* The document is built in a strings.Builder; Go ranges over the map of
\* groups in an order of its choosing.
BuildContent(p) ==
    /\ pc[p] = "build"
    /\ \E order \in Perms(DOMAIN groups(hosts[p])) :
          inventoryContent' = [inventoryContent EXCEPT ![p] = Document(hosts[p], order)]
    /\ pc' = [pc EXCEPT ![p] = "open"]
    /\ UNCHANGED <<files, statErr, hosts, filename, counter, inventoryFile, ret,
                   nMkdir, nStat, nWrite, fault, calls>>
    /\ UNCHANGED <<files0, returned, discVars, histVars, runVars>>

\* os.WriteFile opens the path with O_WRONLY|O_CREATE|O_TRUNC: the file exists
\* and is empty, or the open fails and nothing changes.
WriteOpen(p, faults) ==
    /\ pc[p] = "open"
    /\ nWrite' = [nWrite EXCEPT ![p] = @ + 1]
    /\ \E ok \in (IF faults THEN BOOLEAN ELSE {TRUE}) :
          /\ fault' = [fault EXCEPT ![p] = IF ok THEN @ ELSE "write"]
          /\ IF ok
             THEN /\ files' = WriteAt(files, inventoryFile[p], <<>>)
                  /\ pc' = [pc EXCEPT ![p] = "write"]
                  /\ ret' = ret
             ELSE /\ files' = files
                  /\ pc' = [pc EXCEPT ![p] = "done"]
                  /\ ret' = [ret EXCEPT ![p] = [path |-> <<>>, err |-> WriteErr]]
    /\ UNCHANGED <<statErr, hosts, filename, counter, inventoryFile,
                   inventoryContent, nMkdir, nStat, calls>>
    /\ UNCHANGED <<files0, returned, discVars, histVars, runVars>>

\* What a file holds after data is written at its start through a descriptor
\* of its own: the data, and what the file held beyond the data's length.
Overlay(held, data) == data \o SubSeq(held, Len(data) + 1, Len(held))

\* os.WriteFile writes the data at the start of the file and closes: all of it
\* without an error, or a prefix of it (possibly all) with an error; then
\* CreateInventoryFile returns.
WriteData(p, faults) ==
    /\ pc[p] = "write"
    /\ \E ok \in (IF faults THEN BOOLEAN ELSE {TRUE}) :
       \E k \in (IF ok THEN {Len(inventoryContent[p])} ELSE 0..Len(inventoryContent[p])) :
          /\ fault' = [fault EXCEPT ![p] = IF ok THEN @ ELSE "write"]
          /\ files' = WriteAt(files, inventoryFile[p],
                               Overlay(files[inventoryFile[p]], Prefix(inventoryContent[p], k)))
          /\ ret' = [ret EXCEPT ![p] =
                        IF ok THEN [path |-> inventoryFile[p], err |-> NoErr]
                              ELSE [path |-> <<>>, err |-> WriteErr]]
          /\ returned' = IF ok THEN Append(returned, [path |-> inventoryFile[p],
                                                      document |-> inventoryContent[p]])
                               ELSE returned
    /\ pc' = [pc EXCEPT ![p] = "done"]
    /\ UNCHANGED <<statErr, hosts, filename, counter, inventoryFile,
                   inventoryContent, nMkdir, nStat, nWrite, calls>>
    /\ UNCHANGED <<files0, discVars, histVars, runVars>>

\* The caller has its result; it may call again.
Return(p) ==
    /\ pc[p] = "done"
    /\ pc' = [pc EXCEPT ![p] = "idle"]
    /\ UNCHANGED <<files, statErr, hosts, filename, counter, inventoryFile,
                   inventoryContent, ret, nMkdir, nStat, nWrite, fault, calls>>
    /\ UNCHANGED <<files0, returned, discVars, histVars, runVars>>

\* CreateInventoryFile run by the invocations P, at most `limit` times in all,
\* on arguments of Inputs.
Builder(P, Inputs, limit, faults) ==
    \E p \in P :
        \/ Call(p, Inputs, limit)
        \/ MkdirAll(p, faults)
        \/ UniqueStart(p)
        \/ Probe(p)
        \/ BuildContent(p)
        \/ WriteOpen(p, faults)
        \/ WriteData(p, faults)
        \/ Return(p)

-----------------------------------------------------------------------------
(* Instance discovery *)

\* A field of a listing, or a line: its text, and whether the command printed
\* a blank on each side of it.
Plain(t) == [text |-> t, pad |-> FALSE]
Padded(t) == [text |-> t, pad |-> TRUE]

\* The characters printed for a field.
FieldText(f) == IF f.pad THEN <<" ">> \o S(f.text) \o <<" ">> ELSE S(f.text)

\* The output of `multipass list --format csv` for a sequence of rows, each a
\* sequence of fields: the fields of a row separated by commas, every row
\* ended by a newline.
ListingText(rows) ==
    Concat([r \in DOMAIN rows |->
               Concat([k \in DOMAIN rows[r] |->
                          (IF k > 1 THEN <<",">> ELSE <<>>) \o FieldText(rows[r][k])])
               \o <<"\n">>])

\* The output of `docker ps --format {{.Names}}` for a sequence of lines,
\* every line ended by a newline.
NamesText(ls) == Concat([r \in DOMAIN ls |-> FieldText(ls[r]) \o <<"\n">>])

\* ParseA over every line, the first included.
ParseA_KeepsFirstLine(out) ==
    LET lines == Split(out, "\n")
        taken == SelectSeq(lines,
                           LAMBDA line : /\ Len(Split(line, ",")) > 2
                                         /\ TrimSpace(Split(line, ",")[2]) = <<"Running">>)
    IN  [k \in DOMAIN taken |-> TrimSpace(Split(taken[k], ",")[3])] \o <<>>

\* ParseA without the test of the status: every row of three fields is taken.
ParseA_NoStatusTest(out) ==
    LET lines == Split(out, "\n")
        taken == SelectSeq(Tail(lines), LAMBDA line : Len(Split(line, ",")) > 2)
    IN  [k \in DOMAIN taken |-> TrimSpace(Split(taken[k], ",")[3])] \o <<>>

\* The candidates of the output of multipass: of the lines after the first,
\* those of more than two fields whose second field, trimmed, is Running give
\* their third field, trimmed.
ParseA(out) ==
    LET lines == Split(out, "\n")
        taken == SelectSeq(Tail(lines),
                           LAMBDA line : /\ Len(Split(line, ",")) > 2
                                         /\ TrimSpace(Split(line, ",")[2]) = <<"Running">>)
    IN  [k \in DOMAIN taken |-> TrimSpace(Split(taken[k], ",")[3])] \o <<>>

\* The candidates of the output of docker: every line of length above 0,
\* trimmed.
ParseB(out) ==
    LET taken == SelectSeq(Split(out, "\n"), LAMBDA line : Len(line) > 0)
    IN  [k \in DOMAIN taken |-> TrimSpace(taken[k])] \o <<>>

\* Select in the order of the candidates instead of the order of the indices.
Select_InCandidateOrder(cands, in) ==
    LET indices == Fields(in)
        at == SelectSeq([i \in DOMAIN cands |-> i] \o <<>>,
                        LAMBDA i : \E k \in DOMAIN indices :
                                      ~Atoi(indices[k]).err /\ Atoi(indices[k]).i = i)
    IN  [k \in DOMAIN at |-> cands[at[k]]] \o <<>>

\* The numbered selection: the fields of the input that Atoi converts to an i
\* with 0 < i <= len(instances) give instances[i-1], in the order of the fields.
Select(cands, in) ==
    LET valid == SelectSeq(Fields(in),
                           LAMBDA index : /\ ~Atoi(index).err
                                          /\ Atoi(index).i > 0
                                          /\ Atoi(index).i <= Len(cands))
    IN  [k \in DOMAIN valid |-> cands[Atoi(valid[k]).i]] \o <<>>

\* The input that selects every candidate.
All == <<"a", "l", "l">>

\* No command has run.
NoOutcome == [err |-> FALSE, rows |-> <<>>]

\* The text the reader holds when the user types the tokens t.toks the way
\* t.fmt says: white space before them, between them and after them, the end
\* of the line, and what is typed after the line.
TypedText(t) ==
    t.fmt.lead
    \o Concat([k \in DOMAIN t.toks |-> (IF k > 1 THEN t.fmt.sep ELSE <<>>) \o t.toks[k]])
    \o t.fmt.end
    \o t.fmt.rest

\* A caller invokes DiscoverInstances(reader), the reader holding what the
\* user types.
DiscCall(Typed) ==
    /\ dpc = "idle"
    /\ \E t \in Typed : typed' = t /\ stdin' = TypedText(t)
    /\ instances' = <<>>
    /\ dpc' = "multipass"
    /\ UNCHANGED <<envA, envB, invoked, input, selected, nPrompt, inventoryDir>>
    /\ UNCHANGED <<builderVars, histVars, runVars>>

\* RunMultipass returning at once when the command fails.
RunMultipass_ReturnOnError(AOutcomes) ==
    /\ dpc = "multipass"
    /\ invoked' = Append(invoked, "multipass")
    /\ \E o \in AOutcomes :
          /\ envA' = o
          /\ instances' = IF o.err THEN instances ELSE instances \o ParseA(ListingText(o.rows))
          /\ dpc' = IF o.err THEN "done" ELSE "docker"
    /\ UNCHANGED <<envB, typed, stdin, input, selected, nPrompt, inventoryDir>>
    /\ UNCHANGED <<builderVars, histVars, runVars>>

\* execCommand("multipass", "list", "--format", "csv").Output(): when err is
\* nil the candidates of the output are appended; lines[1:] panics on no line.
RunMultipass(AOutcomes) ==
    /\ dpc = "multipass"
    /\ invoked' = Append(invoked, "multipass")
    /\ \E o \in AOutcomes :
          /\ envA' = o
          /\ instances' = IF o.err THEN instances ELSE instances \o ParseA(ListingText(o.rows))
          /\ dpc' = IF ~o.err /\ Len(Split(ListingText(o.rows), "\n")) = 0
                    THEN "panic" ELSE "docker"
    /\ UNCHANGED <<envB, typed, stdin, input, selected, nPrompt, inventoryDir>>
    /\ UNCHANGED <<builderVars, histVars, runVars>>

\* execCommand("docker", "ps", "--format", "{{.Names}}").Output(): when err is
\* nil the candidates of the output are appended.
RunDocker(BOutcomes) ==
    /\ dpc = "docker"
    /\ invoked' = Append(invoked, "docker")
    /\ \E o \in BOutcomes :
          /\ envB' = o
          /\ instances' = IF o.err THEN instances ELSE instances \o ParseB(NamesText(o.rows))
    /\ dpc' = "found"
    /\ UNCHANGED <<envA, typed, stdin, input, selected, nPrompt, inventoryDir>>
    /\ UNCHANGED <<builderVars, histVars, runVars>>

\* CheckFound without the test of len(instances): the prompt is always printed.
CheckFound_PromptAlways ==
    /\ dpc = "found"
    /\ selected' = selected
    /\ dpc' = "read"
    /\ nPrompt' = nPrompt + 1
    /\ UNCHANGED <<instances, envA, envB, invoked, typed, stdin, input, inventoryDir>>
    /\ UNCHANGED <<builderVars, histVars, runVars>>

\* With no candidate an empty list is returned; otherwise the candidates and
\* the prompt are printed.
CheckFound ==
    /\ dpc = "found"
    /\ IF Len(instances) = 0
       THEN /\ selected' = <<>>
            /\ dpc' = "done"
            /\ nPrompt' = nPrompt
       ELSE /\ selected' = selected
            /\ dpc' = "read"
            /\ nPrompt' = nPrompt + 1
    /\ UNCHANGED <<instances, envA, envB, invoked, typed, stdin, input, inventoryDir>>
    /\ UNCHANGED <<builderVars, histVars, runVars>>

\* A line is read and trimmed; `all` returns the candidates, any other input
\* the numbered selection.
ReadSelection ==
    /\ dpc = "read"
    /\ LET read == ReadString(stdin)
           in == TrimSpace(read.line)
       IN  /\ stdin' = read.rest
           /\ input' = in
           /\ selected' = IF in = All THEN instances ELSE Select(instances, in)
    /\ dpc' = "done"
    /\ UNCHANGED <<instances, envA, envB, invoked, typed, nPrompt, inventoryDir>>
    /\ UNCHANGED <<builderVars, histVars, runVars>>

\* askForInventory passes the list to createInventoryFile, which reads the
\* next line of the reader as the directory, `.` standing for an empty answer.
ReadInventoryDir ==
    /\ dpc = "done"
    /\ LET read == ReadString(stdin)
           dir == TrimSpace(read.line)
       IN  /\ stdin' = read.rest
           /\ inventoryDir' = IF dir = <<>> THEN <<".">> ELSE dir
    /\ dpc' = "asked"
    /\ UNCHANGED <<instances, envA, envB, invoked, typed, input, selected, nPrompt>>
    /\ UNCHANGED <<builderVars, histVars, runVars>>

\* DiscoverInstances on the outcomes given for the two commands and the lines
\* given for the user, and the question that follows it.
Discovery(AOutcomes, BOutcomes, Typed) ==
    \/ DiscCall(Typed)
    \/ RunMultipass(AOutcomes)
    \/ RunDocker(BOutcomes)
    \/ CheckFound
    \/ ReadSelection
    \/ ReadInventoryDir

-----------------------------------------------------------------------------
(* Command history *)

\* The most entries loadHistory and saveNewHistoryEntry keep.
HistoryCap == 5

\* entries[len(entries)-n:] when len(entries) > n, entries otherwise.
LastN(entries, n) ==
    IF Len(entries) > n THEN SubSeq(entries, Len(entries) - n + 1, Len(entries)) ELSE entries

\* strings.Join(lines, "\n")
JoinLines(lines) ==
    Concat([k \in DOMAIN lines |-> (IF k > 1 THEN <<"\n">> ELSE <<>>) \o lines[k]])

\* The keys of a CommandHistoryEntry in JSON.
KeyInventory == "\"inventory_file\":"
KeyPlaybooks == "\"playbooks\":"
KeyDryRun == "\"dry_run\":"

\* A JSON string.
Quoted(t) == <<"\"">> \o S(t) \o <<"\"">>

\* json.Marshal(entry): the three fields in the order of the struct.
Marshal(e) ==
    <<"{", KeyInventory>> \o Quoted(e.InventoryFile)
    \o <<",", KeyPlaybooks, "[">>
    \o Concat([k \in DOMAIN e.Playbooks |->
                  (IF k > 1 THEN <<",">> ELSE <<>>) \o Quoted(e.Playbooks[k])])
    \o <<"]", ",", KeyDryRun, IF e.DryRun THEN "true" ELSE "false", "}">>

\* json.Unmarshal(line, &entry) for the lines the model has: an object of the
\* three keys in the order of Marshal, without white space, gives its entry;
\* any other line is an error.
Unmarshal(line) ==
    LET n == Len(line)
        atP == Places(line, {KeyPlaybooks})
        atD == Places(line, {KeyDryRun})
        p == atP[1]
        d == atD[1]
        items == SubSeq(line, p + 2, d - 3)
        count == (Len(items) + 1) \div 4
        shaped ==
            /\ Len(atP) = 1 /\ Len(atD) = 1
            /\ n >= 12 /\ p >= 6 /\ d >= p + 4 /\ n = d + 2
            /\ line[1] = "{" /\ line[2] = KeyInventory /\ line[3] = "\""
            /\ p - 6 <= 1
            /\ line[p - 2] = "\"" /\ line[p - 1] = ","
            /\ line[p + 1] = "[" /\ line[d - 2] = "]" /\ line[d - 1] = ","
            /\ line[d + 1] \in {"true", "false"} /\ line[n] = "}"
            /\ Len(items) = 0 \/ Len(items) = 4 * count - 1
            /\ \A k \in 1..Len(items) :
                  CASE k % 4 = 1 -> items[k] = "\""
                    [] k % 4 = 2 -> items[k] \notin {"\"", ","}
                    [] k % 4 = 3 -> items[k] = "\""
                    [] OTHER -> items[k] = ","
    IN  IF ~shaped THEN [err |-> TRUE]
        ELSE [err |-> FALSE,
              entry |-> [InventoryFile |-> IF p = 6 THEN "" ELSE line[4],
                         Playbooks |-> [k \in 1..(IF Len(items) = 0 THEN 0 ELSE count) |->
                                           items[4 * k - 2]] \o <<>>,
                         DryRun |-> line[d + 1] = "true"]]

\* loadHistory giving up at the first line Unmarshal refuses.
loadHistory_StopsAtBadLine ==
    IF ~histReadable THEN [err |-> TRUE, entries |-> <<>>]
    ELSE IF ~histFile.exists THEN [err |-> FALSE, entries |-> <<>>]
    ELSE LET lines == Split(histFile.data, "\n")
             trimmed == SelectSeq([k \in DOMAIN lines |-> TrimSpace(lines[k])] \o <<>>,
                                  LAMBDA line : line # <<>>)
             bad == {k \in DOMAIN trimmed : Unmarshal(trimmed[k]).err}
             upTo == IF bad = {} THEN Len(trimmed)
                     ELSE (CHOOSE k \in bad : \A j \in bad : k <= j) - 1
             entries == [k \in 1..upTo |-> Unmarshal(trimmed[k]).entry] \o <<>>
         IN  [err |-> FALSE, entries |-> LastN(entries, HistoryCap)]

\* loadHistory: an error when the file cannot be read, no entry when it does
\* not exist; otherwise the entries of the lines that, trimmed, are not empty
\* and that Unmarshal accepts, the last HistoryCap of them.
loadHistory ==
    IF ~histReadable THEN [err |-> TRUE, entries |-> <<>>]
    ELSE IF ~histFile.exists THEN [err |-> FALSE, entries |-> <<>>]
    ELSE LET lines == Split(histFile.data, "\n")
             trimmed == [k \in DOMAIN lines |-> TrimSpace(lines[k])] \o <<>>
             kept == SelectSeq(trimmed, LAMBDA line : line # <<>> /\ ~Unmarshal(line).err)
             entries == [k \in DOMAIN kept |-> Unmarshal(kept[k]).entry] \o <<>>
         IN  [err |-> FALSE, entries |-> LastN(entries, HistoryCap)]

\* The text saveHistory writes for entries: one object per line.
HistoryText(entries) == JoinLines([k \in DOMAIN entries |-> Marshal(entries[k])] \o <<>>)

\* saveNewHistoryEntry keeping the first HistoryCap entries instead of the last.
SaveNew_KeepsOldest(e, faults) ==
    LET loaded == loadHistory
        all == Append(loaded.entries, e)
        data == HistoryText(IF Len(all) > HistoryCap THEN SubSeq(all, 1, HistoryCap) ELSE all)
    IN  /\ histFile' = [exists |-> TRUE, data |-> data]
        /\ nWarn' = nWarn
        /\ appended' = Append(appended, e)
        /\ UNCHANGED <<histReadable, histInit>>

\* saveNewHistoryEntry(e): the history is loaded, a failure to load it giving
\* a warning and an empty history; e is appended, the last HistoryCap entries
\* are kept and written over the file; a failure to write gives a warning,
\* the file being as it was or holding a part of the text.
SaveNew(e, faults) ==
    LET loaded == loadHistory
        currentHistory == LastN(Append(loaded.entries, e), HistoryCap)
        data == HistoryText(currentHistory)
    IN  /\ \E ok \in (IF faults THEN BOOLEAN ELSE {TRUE}) :
              /\ IF ok
                 THEN histFile' = [exists |-> TRUE, data |-> data]
                 ELSE histFile' \in {histFile}
                                    \cup {[exists |-> TRUE, data |-> Prefix(data, k)] :
                                             k \in 0..Len(data)}
              /\ nWarn' = nWarn + (IF loaded.err THEN 1 ELSE 0) + (IF ok THEN 0 ELSE 1)
        /\ appended' = Append(appended, e)
        /\ UNCHANGED <<histReadable, histInit>>

\* A caller invokes saveNewHistoryEntry, at most `limit` times in all.
SaveNewHistoryEntry(Saved, limit, faults) ==
    /\ Len(appended) < limit
    /\ \E e \in Saved : SaveNew(e, faults)
    /\ UNCHANGED <<builderVars, discVars, runVars>>

-----------------------------------------------------------------------------
(* Running playbooks *)

\* cmdArgs with --check put before the playbook's other arguments.
CmdArgs_CheckFirst(inventory, playbook, extra, dryRun) ==
    (IF dryRun THEN <<"--check">> ELSE <<>>)
    \o <<"-i", inventory, playbook>>
    \o Concat([k \in DOMAIN extra |-> <<"--extra-vars", extra[k]>>])

\* cmdArgs of ExecuteAnsiblePlaybook: -i, the inventory, the playbook, a pair
\* for each extra variable, --check in dry-run mode.
CmdArgs(inventory, playbook, extra, dryRun) ==
    <<"-i", inventory, playbook>>
    \o Concat([k \in DOMAIN extra |-> <<"--extra-vars", extra[k]>>])
    \o (IF dryRun THEN <<"--check">> ELSE <<>>)

\* The commands that have failed.
Failures == Cardinality({k \in DOMAIN execLog : execLog[k].failed})

\* ExecuteAnsiblePlaybook(inventory, playbook, extra, dryRun) in the pass
\* `pass` of a run: the command is run; it fails or not, and the failure is
\* only printed.  At most `failures` commands fail in all.
Execute(inventory, playbook, extra, dryRun, pass, failures) ==
    \E failed \in (IF Failures < failures THEN BOOLEAN ELSE {FALSE}) :
        execLog' = Append(execLog,
                          [name |-> "ansible-playbook",
                           args |-> CmdArgs(inventory, playbook, extra, dryRun),
                           inventory |-> inventory, playbook |-> playbook,
                           extra |-> extra, dryRun |-> dryRun,
                           failed |-> failed, pass |-> pass])

\* A caller invokes ExecuteAnsiblePlaybook, at most `limit` times in all.
ExecuteAnsiblePlaybook(Inventories, Playbooks, Extras, limit) ==
    /\ Len(execLog) < limit
    /\ \E inventory \in Inventories, playbook \in Playbooks, extra \in Extras, dryRun \in BOOLEAN :
          Execute(inventory, playbook, extra, dryRun, [kind |-> "call", n |-> 0], limit)
    /\ UNCHANGED <<rpc, flow, historyEntries, runInventory, runPlaybooks, runDryRun, pbIdx,
                   reIdx, saveLog>>
    /\ UNCHANGED asked
    /\ UNCHANGED <<builderVars, discVars, histVars>>

\* strings.ToLower on the words of the model.
ToLower(s) ==
    [k \in DOMAIN s |-> IF s[k] \in {"Yes", "YES"} THEN "yes"
                        ELSE IF s[k] \in {"No", "NO"} THEN "no" ELSE s[k]] \o <<>>

\* The passes of a run: the playbooks of the fresh flow, those of a history
\* entry reused, and the re-run asked for after the n-th playbook.
FreshPass == [kind |-> "fresh", n |-> 0]
ReusePass == [kind |-> "reuse", n |-> 0]
RerunPass(n) == [kind |-> "rerun", n |-> n]

\* The entry of the run.
RunEntry(dryRun) ==
    [InventoryFile |-> runInventory, Playbooks |-> runPlaybooks, DryRun |-> dryRun]

\* saveNewHistoryEntry called by the run in the pass `pass`.
RunSave(dryRun, pass, faults) ==
    /\ SaveNew(RunEntry(dryRun), faults)
    /\ saveLog' = Append(saveLog, [pass |-> pass, after |-> Len(execLog)])

\* runPlaybook is invoked.
RunCall ==
    /\ rpc = "idle"
    /\ rpc' = "load"
    /\ UNCHANGED <<flow, historyEntries, runInventory, runPlaybooks, runDryRun, pbIdx, reIdx,
                   execLog, saveLog>>
    /\ UNCHANGED asked
    /\ UNCHANGED <<builderVars, discVars, histVars>>

\* The history is loaded, a failure giving a warning; with entries the user is
\* asked to choose one.
RunLoad ==
    /\ rpc = "load"
    /\ historyEntries' = loadHistory.entries
    /\ nWarn' = nWarn + (IF loadHistory.err THEN 1 ELSE 0)
    /\ rpc' = IF Len(loadHistory.entries) > 0 THEN "choose" ELSE "ask"
    /\ UNCHANGED <<flow, runInventory, runPlaybooks, runDryRun, pbIdx, reIdx, execLog, saveLog>>
    /\ UNCHANGED <<histFile, histReadable, histInit, appended>>
    /\ UNCHANGED asked
    /\ UNCHANGED <<builderVars, discVars>>

\* The entries are shown latest first and a line is read: a number of
\* 1..len(displayedEntries) takes the entry counted from the latest, anything
\* else goes to the fresh flow.
RunChoose(Typed) ==
    /\ rpc = "choose"
    /\ \E text \in Typed :
          LET displayedEntries == LastN(historyEntries, 5)
              in == TrimSpace(ReadString(text).line)
              choice == Atoi(in)
              taken == /\ in # <<>>
                       /\ ~choice.err
                       /\ choice.i >= 1 /\ choice.i <= Len(displayedEntries)
              selectedEntry == displayedEntries[Len(displayedEntries) - choice.i + 1]
          IN  IF taken
              THEN /\ runInventory' = selectedEntry.InventoryFile
                   /\ runPlaybooks' = selectedEntry.Playbooks
                   /\ runDryRun' = selectedEntry.DryRun
                   /\ flow' = "reuse"
                   /\ rpc' = "reuse"
                   /\ pbIdx' = 1
              ELSE /\ rpc' = "ask"
                   /\ UNCHANGED <<runInventory, runPlaybooks, runDryRun, flow, pbIdx>>
    /\ UNCHANGED <<historyEntries, reIdx, execLog, saveLog>>
    /\ UNCHANGED asked
    /\ UNCHANGED <<builderVars, discVars, histVars>>

\* The next playbook of the entry reused is run.
RunReuseExec(failures) ==
    /\ rpc = "reuse"
    /\ pbIdx <= Len(runPlaybooks)
    /\ Execute(runInventory, runPlaybooks[pbIdx], <<>>, runDryRun, ReusePass, failures)
    /\ pbIdx' = pbIdx + 1
    /\ UNCHANGED <<rpc, flow, historyEntries, runInventory, runPlaybooks, runDryRun, reIdx,
                   saveLog>>
    /\ UNCHANGED asked
    /\ UNCHANGED <<builderVars, discVars, histVars>>

\* The playbooks of the entry reused have run: the entry is saved again and
\* runPlaybook returns.
RunReuseSave(faults) ==
    /\ rpc = "reuse"
    /\ pbIdx > Len(runPlaybooks)
    /\ RunSave(runDryRun, ReusePass, faults)
    /\ rpc' = "done"
    /\ UNCHANGED <<flow, historyEntries, runInventory, runPlaybooks, runDryRun, pbIdx, reIdx,
                   execLog>>
    /\ UNCHANGED asked
    /\ UNCHANGED <<builderVars, discVars>>

\* askForInventory, askForPlaybooks, askForDryRun: the user gives an
\* inventory, playbooks and the mode; or the inventory cannot be created and
\* the program exits.
RunAsk(Inventories, PlaybookLists) ==
    /\ rpc = "ask"
    /\ \E created \in BOOLEAN :
          IF created
          THEN /\ \E inventory \in Inventories : runInventory' = inventory
               /\ \E list \in PlaybookLists : runPlaybooks' = list
               /\ runDryRun' \in BOOLEAN
               /\ flow' = "fresh"
               /\ rpc' = "save"
          ELSE /\ rpc' = "exited"
               /\ UNCHANGED <<runInventory, runPlaybooks, runDryRun, flow>>
    /\ UNCHANGED <<historyEntries, pbIdx, reIdx, execLog, saveLog>>
    /\ UNCHANGED asked
    /\ UNCHANGED <<builderVars, discVars, histVars>>

\* The fresh flow saves its entry, then starts its loop over the playbooks.
RunFreshSave(faults) ==
    /\ rpc = "save"
    /\ RunSave(runDryRun, FreshPass, faults)
    /\ rpc' = "exec"
    /\ pbIdx' = 1
    /\ UNCHANGED <<flow, historyEntries, runInventory, runPlaybooks, runDryRun, reIdx, execLog>>
    /\ UNCHANGED asked
    /\ UNCHANGED <<builderVars, discVars>>

\* RunFreshExec leaving the loop when the command fails.
RunFreshExec_StopsOnFailure(failures) ==
    /\ rpc = "exec"
    /\ pbIdx <= Len(runPlaybooks)
    /\ Execute(runInventory, runPlaybooks[pbIdx], <<>>, runDryRun, FreshPass, failures)
    /\ IF execLog'[Len(execLog')].failed
       THEN rpc' = "done" /\ pbIdx' = pbIdx
       ELSE IF runDryRun
            THEN rpc' = "again" /\ pbIdx' = pbIdx
            ELSE rpc' = "exec" /\ pbIdx' = pbIdx + 1
    /\ UNCHANGED <<flow, historyEntries, runInventory, runPlaybooks, runDryRun, reIdx, saveLog>>
    /\ UNCHANGED asked
    /\ UNCHANGED <<builderVars, discVars, histVars>>

\* The next playbook of the fresh flow is run; in dry-run mode the user is
\* then asked whether to run again without it.
RunFreshExec(failures) ==
    /\ rpc = "exec"
    /\ pbIdx <= Len(runPlaybooks)
    /\ Execute(runInventory, runPlaybooks[pbIdx], <<>>, runDryRun, FreshPass, failures)
    /\ IF runDryRun
       THEN rpc' = "again" /\ pbIdx' = pbIdx
       ELSE rpc' = "exec" /\ pbIdx' = pbIdx + 1
    /\ UNCHANGED <<flow, historyEntries, runInventory, runPlaybooks, runDryRun, reIdx, saveLog>>
    /\ UNCHANGED asked
    /\ UNCHANGED <<builderVars, discVars, histVars>>

\* The answer is read, trimmed and lowered: `yes` starts the re-run of all the
\* playbooks, anything else goes on with the loop.
RunAgain(Answers) ==
    /\ rpc = "again"
    /\ \E text \in Answers :
          LET response == TrimSpace(ToLower(ReadString(text).line))
          IN  /\ asked' = Append(asked, [after |-> Len(execLog), yes |-> response = <<"yes">>])
              /\ IF response = <<"yes">>
                 THEN rpc' = "rerun" /\ reIdx' = 1 /\ pbIdx' = pbIdx
                 ELSE rpc' = "exec" /\ reIdx' = reIdx /\ pbIdx' = pbIdx + 1
    /\ UNCHANGED <<flow, historyEntries, runInventory, runPlaybooks, runDryRun, execLog, saveLog>>
    /\ UNCHANGED <<builderVars, discVars, histVars>>

\* The next playbook of the re-run is run, without dry-run.
RunRerunExec(failures) ==
    /\ rpc = "rerun"
    /\ reIdx <= Len(runPlaybooks)
    /\ Execute(runInventory, runPlaybooks[reIdx], <<>>, FALSE, RerunPass(pbIdx), failures)
    /\ reIdx' = reIdx + 1
    /\ UNCHANGED <<rpc, flow, historyEntries, runInventory, runPlaybooks, runDryRun, pbIdx,
                   saveLog>>
    /\ UNCHANGED asked
    /\ UNCHANGED <<builderVars, discVars, histVars>>

\* RunRerunSave returning from runPlaybook once the re-run is saved.
RunRerunSave_EndsRun(faults) ==
    /\ rpc = "rerun"
    /\ reIdx > Len(runPlaybooks)
    /\ RunSave(FALSE, RerunPass(pbIdx), faults)
    /\ rpc' = "done"
    /\ pbIdx' = pbIdx
    /\ UNCHANGED <<flow, historyEntries, runInventory, runPlaybooks, runDryRun, reIdx, execLog>>
    /\ UNCHANGED asked
    /\ UNCHANGED <<builderVars, discVars>>

\* The re-run is over: its entry is saved, and the loop of the fresh flow goes
\* on.
RunRerunSave(faults) ==
    /\ rpc = "rerun"
    /\ reIdx > Len(runPlaybooks)
    /\ RunSave(FALSE, RerunPass(pbIdx), faults)
    /\ rpc' = "exec"
    /\ pbIdx' = pbIdx + 1
    /\ UNCHANGED <<flow, historyEntries, runInventory, runPlaybooks, runDryRun, reIdx, execLog>>
    /\ UNCHANGED asked
    /\ UNCHANGED <<builderVars, discVars>>

\* The loop of the fresh flow is over: runPlaybook returns.
RunReturn ==
    /\ rpc = "exec"
    /\ pbIdx > Len(runPlaybooks)
    /\ rpc' = "done"
    /\ UNCHANGED <<flow, historyEntries, runInventory, runPlaybooks, runDryRun, pbIdx, reIdx,
                   execLog, saveLog>>
    /\ UNCHANGED asked
    /\ UNCHANGED <<builderVars, discVars, histVars>>

\* runPlaybook with the lines, inventories and playbooks given for the user,
\* at most `failures` commands failing.
Run(Typed, Inventories, PlaybookLists, Answers, failures, faults) ==
    \/ RunCall
    \/ RunLoad
    \/ RunChoose(Typed)
    \/ RunReuseExec(failures)
    \/ RunReuseSave(faults)
    \/ RunAsk(Inventories, PlaybookLists)
    \/ RunFreshSave(faults)
    \/ RunFreshExec(failures)
    \/ RunAgain(Answers)
    \/ RunRerunExec(failures)
    \/ RunRerunSave(faults)
    \/ RunReturn

-----------------------------------------------------------------------------
(* Inputs *)

HostNames == {"h1", "h2"}
GroupLabels == {"", "web", "Web"}
Ports == {"", "22"}

\* The HostConfig values of the document specification.
HostConfigs ==
    [Host : HostNames, Group : GroupLabels, SSHUser : {"ubuntu"},
     SSHKeyFile : {"~/.ssh/id_rsa"}, SSHPort : Ports, Become : BOOLEAN]

RECURSIVE SeqsUpTo(_, _)
\* The sequences over X of length at most n.
SeqsUpTo(X, n) ==
    IF n = 0 THEN {<<>>}
    ELSE LET shorter == SeqsUpTo(X, n - 1)
         IN  shorter \cup {Append(s, x) : s \in shorter, x \in X}

\* The hosts arguments of the document specification.
WideInputs == SeqsUpTo(HostConfigs, MaxHosts)

\* The hosts arguments of the file-system specification.
NarrowInputs ==
    {<<>>,
     <<[Host |-> "h1", Group |-> "", SSHUser |-> "ubuntu",
        SSHKeyFile |-> "~/.ssh/id_rsa", SSHPort |-> "", Become |-> TRUE]>>}

\* What a file present before the first invocation holds.
OldContent == <<"old", "\n">>

\* The inventory names that may be present before the first invocation.
PreNames == {BaseFilename} \cup {NumberedFilename(n) : n \in 1..MaxPre}

\* No invocation has started.
BuilderIdle ==
    /\ pc = [p \in Procs |-> "idle"]
    /\ hosts = [p \in Procs |-> <<>>]
    /\ filename = [p \in Procs |-> <<>>]
    /\ counter = [p \in Procs |-> 0]
    /\ inventoryFile = [p \in Procs |-> <<>>]
    /\ inventoryContent = [p \in Procs |-> <<>>]
    /\ ret = [p \in Procs |-> NoRet]
    /\ nMkdir = [p \in Procs |-> 0]
    /\ nStat = [p \in Procs |-> 0]
    /\ nWrite = [p \in Procs |-> 0]
    /\ fault = [p \in Procs |-> "none"]
    /\ calls = 0
    /\ files0 = files
    /\ returned = <<>>

\* The rows `multipass list` may print: the header, a running instance, a
\* running instance printed with blanks around its fields, a stopped instance,
\* a row cut after its status.
HeaderRow == <<Plain("Name"), Plain("State"), Plain("IPv4"), Plain("Image")>>
RunningRow == <<Plain("vm1"), Plain("Running"), Plain("10.0.0.5"), Plain("img")>>
PaddedRow == <<Plain("vm2"), Padded("Running"), Padded("10.0.0.6"), Plain("img")>>
StoppedRow == <<Plain("vm3"), Plain("Stopped"), Plain("10.0.0.7"), Plain("img")>>
ShortRow == <<Plain("vm4"), Plain("Running")>>
ARows == {HeaderRow, RunningRow, PaddedRow, StoppedRow, ShortRow}

\* Longest listing of multipass, in rows, and of docker, in lines.
MaxALines == 3
MaxBLines == 2

\* What multipass may do: print any listing and succeed, or fail having
\* printed nothing or a listing.
AOutcomes ==
    {[err |-> FALSE, rows |-> r] : r \in SeqsUpTo(ARows, MaxALines)}
    \cup {[err |-> TRUE, rows |-> r] : r \in {<<>>, <<HeaderRow, RunningRow>>}}

\* The lines `docker ps` may print: a name, a name with blanks around it, a
\* line of blanks, an empty line.
BLines == {Plain("c1"), Padded("c2"), Padded(""), Plain("")}

\* What docker may do: print any lines and succeed, or fail having printed
\* nothing or a name.
BOutcomes ==
    {[err |-> FALSE, rows |-> r] : r \in SeqsUpTo(BLines, MaxBLines)}
    \cup {[err |-> TRUE, rows |-> r] : r \in {<<>>, <<Plain("c1")>>}}

\* The outcomes of the selection specification: two candidates or none from
\* each command.
FewAOutcomes ==
    {[err |-> FALSE, rows |-> <<HeaderRow, RunningRow, PaddedRow>>],
     [err |-> TRUE, rows |-> <<>>]}
FewBOutcomes ==
    {[err |-> FALSE, rows |-> <<Plain("c1"), Plain("c2")>>],
     [err |-> TRUE, rows |-> <<>>]}

\* The tokens the user may type.
Tokens ==
    {<<"1">>, <<"2">>, <<"4">>, <<"7">>, <<"0">>, <<"-", "1">>, <<"+", "2">>,
     <<"0", "3">>, <<"x">>, All}

\* Most tokens on a line.
MaxTokens == 2

\* The ways a line is typed: tokens a blank apart, the line ended, and an
\* answer to a later question after it; blanks and tabs around the tokens and
\* a carriage return before the newline; the input ending without a newline.
PlainLine == [lead |-> <<>>, sep |-> <<" ">>, end |-> <<"\n">>, rest |-> <<"y", "\n">>]
BlankLine == [lead |-> <<" ">>, sep |-> <<"\t", " ">>, end |-> <<" ", "\r", "\n">>, rest |-> <<>>]
OpenLine == [lead |-> <<>>, sep |-> <<" ">>, end |-> <<>>, rest |-> <<>>]
Formats == {PlainLine, BlankLine, OpenLine}

\* The lines of the selection specification and of the listing specification.
ManyTyped == {[toks |-> ts, fmt |-> f] : ts \in SeqsUpTo(Tokens, MaxTokens), f \in Formats}
FewTyped == {[toks |-> <<All>>, fmt |-> PlainLine],
             [toks |-> <<<<"2">>, <<"1">>>>, fmt |-> PlainLine]}

\* DiscoverInstances has not been invoked.
DiscIdle ==
    /\ dpc = "idle"
    /\ instances = <<>>
    /\ envA = NoOutcome
    /\ envB = NoOutcome
    /\ invoked = <<>>
    /\ typed = [toks |-> <<>>, fmt |-> PlainLine]
    /\ stdin = <<>>
    /\ input = <<>>
    /\ selected = <<>>
    /\ nPrompt = 0
    /\ inventoryDir = <<>>


\* The entries of the history specification.
EntryOne == [InventoryFile |-> "inv.yml", Playbooks |-> <<"site.yml">>, DryRun |-> FALSE]
EntryTwo == [InventoryFile |-> "dir/inv1.yml", Playbooks |-> <<"a.yml", "b.yml">>, DryRun |-> TRUE]
EntryNone == [InventoryFile |-> "", Playbooks |-> <<>>, DryRun |-> FALSE]

\* A line of the history file: what it is, and the entry it is made of.
HistLine(kind, e) == [kind |-> kind, entry |-> e]

\* The characters of a line: an entry as saveHistory writes it; an entry with
\* a blank before it and a carriage return after it; an entry cut short; text
\* that is not JSON; blanks; nothing.
HistLineText(l) ==
    CASE l.kind = "entry" -> Marshal(l.entry)
      [] l.kind = "padded" -> <<" ">> \o Marshal(l.entry) \o <<"\r">>
      [] l.kind = "cut" -> Prefix(Marshal(l.entry), 6)
      [] l.kind = "garbage" -> <<"not json">>
      [] l.kind = "blank" -> <<" ", "\t">>
      [] OTHER -> <<>>

\* The lines a history file may hold before the first save.
HistLines ==
    {HistLine("entry", EntryOne), HistLine("padded", EntryTwo), HistLine("entry", EntryNone),
     HistLine("cut", EntryTwo), HistLine("garbage", EntryNone), HistLine("blank", EntryNone),
     HistLine("empty", EntryNone)}

\* Most lines of the history file before the first save, and most saves.
MaxHistLines == 2
MaxSaves == 6

\* The history file of the lines ls; no line is no file.
HistFileOf(ls) ==
    IF ls = <<>> THEN [exists |-> FALSE, data |-> <<>>]
    ELSE [exists |-> TRUE, data |-> JoinLines([k \in DOMAIN ls |-> HistLineText(ls[k])] \o <<>>)]

\* A history file of the lines ls, nothing saved yet.
HistStart(ls, readable) ==
    /\ histInit = ls
    /\ histFile = HistFileOf(ls)
    /\ histReadable = readable
    /\ appended = <<>>
    /\ nWarn = 0

\* runPlaybook has not been invoked and no command has run.
RunIdle ==
    /\ rpc = "idle"
    /\ flow = "none"
    /\ historyEntries = <<>>
    /\ runInventory = ""
    /\ runPlaybooks = <<>>
    /\ runDryRun = FALSE
    /\ pbIdx = 0
    /\ reIdx = 0
    /\ execLog = <<>>
    /\ saveLog = <<>>
    /\ asked = <<>>

\* The playbooks of a run, most of them in one run, and most commands that
\* fail in one run.
PlaybookNames == {"a.yml", "b.yml"}
AllPlaybooks == <<"a.yml", "b.yml", "c.yml", "d.yml">>
MaxPlaybooks == 2
MaxFailures == 1

\* The lists of playbooks the user may give.
PlaybookLists == {Prefix(AllPlaybooks, n) : n \in 0..MaxPlaybooks}

\* What the user types when asked to choose a history entry.
Choices == {<<"\n">>, <<"1", "\n">>, <<" ", "2", "\n">>, <<"9", "\n">>, <<"x", "\n">>}

\* What the user types when asked to run again without dry-run.
Responses == {<<"yes", "\n">>, <<" ", "Yes", " ", "\n">>, <<"no", "\n">>}

\* The extra variables of a call of ExecuteAnsiblePlaybook, and most of them.
ExtraVars == {"k1=v1", "k2=v2"}
MaxVars == 2

-----------------------------------------------------------------------------
(* Specifications *)

\* The file-system specification: any set of inventory files is present, Stat
\* may fail throughout, MkdirAll and WriteFile may fail; invocations follow
\* one another.
Init ==
    /\ \E P \in SUBSET PreNames : files = [x \in P |-> OldContent]
    /\ statErr \in BOOLEAN
    /\ BuilderIdle
    /\ DiscIdle
    /\ HistStart(<<>>, TRUE)
    /\ RunIdle

Next == Builder({1}, NarrowInputs, MaxCalls, TRUE)

Spec == Init /\ [][Next]_vars

\* The document specification: an empty directory, no failure of the file
\* system, one invocation on any hosts argument.
InitDoc ==
    /\ files = [x \in {} |-> <<>>]
    /\ statErr = FALSE
    /\ BuilderIdle
    /\ DiscIdle
    /\ HistStart(<<>>, TRUE)
    /\ RunIdle

NextDoc == Builder({1}, WideInputs, 1, FALSE)

SpecDoc == InitDoc /\ [][NextDoc]_vars

\* The file-system specification with every step that can be taken taken in
\* the end.
SpecLive == Init /\ [][Next]_vars /\ WF_vars(Next)

\* The race specification: any set of inventory files is present, nothing
\* fails, two invocations run at once.
InitRace ==
    /\ \E P \in SUBSET PreNames : files = [x \in P |-> OldContent]
    /\ statErr = FALSE
    /\ BuilderIdle
    /\ DiscIdle
    /\ HistStart(<<>>, TRUE)
    /\ RunIdle

NextRace == Builder(Procs, NarrowInputs, MaxCalls, FALSE)

SpecRace == InitRace /\ [][NextRace]_vars

\* The listing specification: the two commands print any listing or fail, the
\* user types one of two lines.
InitDisc == InitDoc

NextDisc == Discovery(AOutcomes, BOutcomes, FewTyped)

SpecDisc == InitDisc /\ [][NextDisc]_vars

\* The selection specification: each command gives two candidates or fails,
\* the user types any line.
NextSel == Discovery(FewAOutcomes, FewBOutcomes, ManyTyped)

SpecSel == InitDisc /\ [][NextSel]_vars

\* The history specification: any lines in the file at first, the file
\* readable and writable, saveNewHistoryEntry called again and again.
InitHist ==
    /\ files = [x \in {} |-> <<>>]
    /\ statErr = FALSE
    /\ BuilderIdle
    /\ DiscIdle
    /\ \E ls \in SeqsUpTo(HistLines, MaxHistLines) : HistStart(ls, TRUE)
    /\ RunIdle

NextHist == SaveNewHistoryEntry({EntryOne, EntryTwo}, MaxSaves, FALSE)

SpecHist == InitHist /\ [][NextHist]_vars

\* The run specification: the history file is absent or holds one entry;
\* runPlaybook is invoked once on any list of playbooks; commands fail.
InitRun ==
    /\ files = [x \in {} |-> <<>>]
    /\ statErr = FALSE
    /\ BuilderIdle
    /\ DiscIdle
    /\ \E ls \in {<<>>, <<HistLine("entry", EntryTwo)>>} : HistStart(ls, TRUE)
    /\ RunIdle

NextRun == Run(Choices, {"inv.yml"}, PlaybookLists, Responses, MaxFailures, FALSE)

SpecRun == InitRun /\ [][NextRun]_vars

\* The loading specification: the history file holds any lines at first and
\* can be read or not; runPlaybook is invoked once; no command fails.
InitLoad ==
    /\ files = [x \in {} |-> <<>>]
    /\ statErr = FALSE
    /\ BuilderIdle
    /\ DiscIdle
    /\ \E ls \in SeqsUpTo(HistLines, MaxHistLines), readable \in BOOLEAN : HistStart(ls, readable)
    /\ RunIdle

NextLoad == Run(Choices, {"inv.yml"}, {<<"a.yml">>}, Responses, 0, FALSE)

SpecLoad == InitLoad /\ [][NextLoad]_vars

\* The command specification: ExecuteAnsiblePlaybook is called once on any
\* arguments.
NextExec ==
    ExecuteAnsiblePlaybook({"inv.yml", "hosts"}, PlaybookNames, SeqsUpTo(ExtraVars, MaxVars), 1)

SpecExec == InitDoc /\ [][NextExec]_vars

-----------------------------------------------------------------------------
(* Reading an inventory document back *)

\* The region of the top-level `hosts:` and the region `children.g.hosts`.
TopRegion == <<>>
ChildRegion(g) == <<"children">> \o g

\* The key of a field line of an entry of region r.
FieldKey(r, k) == IF r = TopRegion THEN "      " \o k ELSE "          " \o k

\* The host entries of a document, in document order, each with its region and
\* with the values of the field lines found under it.  A line of four blanks
\* and a name opens a host of the top-level region before `children:` and a
\* group after it; a line of eight blanks and a name opens a host of the
\* group; a field line belongs to the last host opened before it.
Entries(doc) ==
    LET lines == Split(doc, "\n")
        idx == [i \in DOMAIN lines |-> i] \o <<>>
        last(J) == CHOOSE j \in J : \A k \in J : k <= j
        named(indent) ==
            [i \in DOMAIN lines |-> /\ Len(lines[i]) >= 2
                                    /\ lines[i][1] = indent
                                    /\ lines[i][Len(lines[i])] = ":"] \o <<>>
        named4 == named("    ")
        named8 == named("        ")
        name(i) == SubSeq(lines[i], 2, Len(lines[i]) - 1)
        inChildren == [i \in DOMAIN lines |-> \E j \in 1..(i - 1) : lines[j] = <<"  children:">>] \o <<>>
        region ==
            [i \in DOMAIN lines |->
                LET J == {j \in 1..(i - 1) : named4[j] /\ inChildren[j]}
                IN  IF J = {} THEN TopRegion ELSE ChildRegion(name(last(J)))] \o <<>>
        opens ==
            [i \in DOMAIN lines |->
                \/ named4[i] /\ ~inChildren[i]
                \/ named8[i] /\ inChildren[i] /\ region[i] # TopRegion] \o <<>>
        opened == SelectSeq(idx, LAMBDA i : opens[i])
        owner ==
            [i \in DOMAIN lines |->
                LET J == {j \in 1..(i - 1) : opens[j]}
                IN  IF J = {} THEN 0 ELSE last(J)] \o <<>>
        values(o, k) ==
            LET at == SelectSeq(idx, LAMBDA i : /\ owner[i] = o
                                               /\ ~opens[i]
                                               /\ Len(lines[i]) >= 1
                                               /\ lines[i][1] = FieldKey(region[o], k))
            IN  [n \in DOMAIN at |-> Tail(lines[at[n]])] \o <<>>
    IN  [n \in DOMAIN opened |->
            [region |-> region[opened[n]],
             host |-> name(opened[n]),
             user |-> values(opened[n], "ansible_user: "),
             key |-> values(opened[n], "ansible_ssh_private_key_file: "),
             port |-> values(opened[n], "ansible_port: "),
             become |-> values(opened[n], "ansible_become: ")]] \o <<>>

\* The lines of a document that are the line `  children:`.
ChildrenLines(doc) == SelectSeq(Split(doc, "\n"), LAMBDA l : l = <<"  children:">>)

\* The group names of a document, in document order.
GroupHeaders(doc) ==
    LET lines == Split(doc, "\n")
        after(i) == \E j \in 1..(i - 1) : lines[j] = <<"  children:">>
        isGroup(i) == /\ Len(lines[i]) >= 2
                      /\ lines[i][1] = "    "
                      /\ lines[i][Len(lines[i])] = ":"
                      /\ after(i)
        idx == {i \in DOMAIN lines : isGroup(i)}
    IN  {SubSeq(lines[i], 2, Len(lines[i]) - 1) : i \in idx}

\* The number of places of the sequence s that satisfy Test.
Count(s, Test(_)) == Cardinality({i \in DOMAIN s : Test(s[i])})

\* The invocation p has returned a path and no error.
Built(p) == pc[p] = "done" /\ ret[p].err = NoErr

\* The document at the path returned to p.
Written(p) == files[ret[p].path]

\* The region in which a host of group g belongs.
RegionOf(g) == IF g = "" THEN TopRegion ELSE ChildRegion(<<g>>)

-----------------------------------------------------------------------------
(* Claims about the document *)

\* C1: every host is emitted in exactly one region of the document written:
\* as many entries named h stand in the top-level region as the input has
\* hosts named h with an empty group, as many stand under children.g.hosts as
\* the input has hosts named h with the group g, for every label g and every
\* name h, and the document has no region but those of the labels that occur.
C1_OneRegionPerHost ==
    \A p \in Procs : Built(p) =>
        LET es == Entries(Written(p))
            hs == hosts[p]
        IN  /\ \A h \in HostNames, g \in GroupLabels :
                 Count(es, LAMBDA e : e.host = S(h) /\ e.region = RegionOf(g))
                   = Count(hs, LAMBDA c : c.Host = h /\ c.Group = g)
            /\ Len(es) = Len(hs)
            /\ GroupHeaders(Written(p)) = {<<hs[i].Group>> : i \in DOMAIN hs} \ {<<"">>}

\* C1's case: a host with a group and a host without, written.
C1_Witness ==
    /\ Built(1)
    /\ \E i, j \in DOMAIN hosts[1] :
          /\ hosts[1][i].Group = "" /\ hosts[1][j].Group = "web"
          /\ hosts[1][i].Host = hosts[1][j].Host

\* C2: the document has a `children:` line exactly when some host has a
\* non-empty group; when no host has one, every entry is in the top-level
\* region and there is one entry per host.
C2_ChildrenOnlyWhenGrouped ==
    \A p \in Procs : Built(p) =>
        LET doc == Written(p)
            hs == hosts[p]
            grouped == \E i \in DOMAIN hs : hs[i].Group # ""
        IN  /\ Len(ChildrenLines(doc)) = (IF grouped THEN 1 ELSE 0)
            /\ ~grouped =>
                  /\ \A i \in DOMAIN Entries(doc) : Entries(doc)[i].region = TopRegion
                  /\ Len(Entries(doc)) = Len(hs)
                  /\ \A h \in HostNames :
                        Count(Entries(doc), LAMBDA e : e.host = S(h))
                          = Count(hs, LAMBDA c : c.Host = h)

\* C2's case: two hosts, none with a group, written.
C2_Witness ==
    /\ Built(1)
    /\ Len(hosts[1]) = 2
    /\ \A i \in DOMAIN hosts[1] : hosts[1][i].Group = ""

\* The port lines and become lines an entry of the host c must have.
PortLines(c) == IF c.SSHPort # "" THEN <<<<c.SSHPort>>>> ELSE <<>>
BecomeLines(c) == IF c.Become THEN <<<<"true">>>> ELSE <<>>

\* C3: the entries and the hosts agree, name by name and region by region, on
\* the port lines and become lines: an entry has one port line, of the host's
\* port, when the port is non-empty and none otherwise; it has one become
\* line, of value true, when become is set and none otherwise.
C3_OptionalFields ==
    \A p \in Procs : Built(p) =>
        LET es == Entries(Written(p))
            hs == hosts[p]
        IN  /\ Len(es) = Len(hs)
            /\ \A c \in HostConfigs :
                 Count(es, LAMBDA e : /\ e.host = S(c.Host)
                                      /\ e.region = RegionOf(c.Group)
                                      /\ e.port = PortLines(c)
                                      /\ e.become = BecomeLines(c))
                   = Count(hs, LAMBDA d : /\ d.Host = c.Host
                                          /\ d.Group = c.Group
                                          /\ d.SSHPort = c.SSHPort
                                          /\ d.Become = c.Become)

\* C3's case: a host with a port and become, and a host with neither, one of
\* them in a group, written.
C3_Witness ==
    /\ Built(1)
    /\ \E i, j \in DOMAIN hosts[1] :
          /\ hosts[1][i].SSHPort = "" /\ ~hosts[1][i].Become /\ hosts[1][i].Group # ""
          /\ hosts[1][j].SSHPort # "" /\ hosts[1][j].Become /\ hosts[1][j].Group = ""

\* C5: with no host, and the file system not failing, CreateInventoryFile
\* returns a path and no error, and the file at the path holds the three
\* lines `---`, `all:`, `  hosts:` and nothing else.
C5_EmptyHostsSkeleton ==
    \A p \in Procs : (pc[p] = "done" /\ hosts[p] = <<>>) =>
        /\ ret[p].err = NoErr
        /\ ret[p].path \in DOMAIN files
        /\ files[ret[p].path] = <<"---", "\n", "all:", "\n", "  hosts:", "\n">>
        /\ Entries(files[ret[p].path]) = <<>>

\* C5's case: an invocation with no host has returned.
C5_Witness == pc[1] = "done" /\ hosts[1] = <<>> /\ nWrite[1] = 1

\* The HostConfig an entry stands for: its fields, and the group of its region.
EntryConfig(e) ==
    LET one(v) == IF v = <<>> THEN "" ELSE v[1][1]
        text(v) == IF v = <<>> THEN "" ELSE v[1]
    IN  [Host |-> text(e.host),
         Group |-> IF e.region = TopRegion THEN "" ELSE e.region[2],
         SSHUser |-> IF e.user = <<<<>>>> THEN "" ELSE one(e.user),
         SSHKeyFile |-> IF e.key = <<<<>>>> THEN "" ELSE one(e.key),
         SSHPort |-> one(e.port),
         Become |-> e.become # <<>>]

\* C6: no deduplication: the document has as many entries as the input has
\* records, and every record stands in it as often as in the input, with its
\* own field values, also when two records have the same host.
C6_NoDeduplication ==
    \A p \in Procs : Built(p) =>
        LET es == Entries(Written(p))
            hs == hosts[p]
        IN  /\ Len(es) = Len(hs)
            /\ \A i \in DOMAIN es : Len(es[i].user) = 1 /\ Len(es[i].key) = 1
            /\ \A c \in HostConfigs :
                 Count(es, LAMBDA e : EntryConfig(e) = c) = Count(hs, LAMBDA d : d = c)

\* C6's case: two records of one host and one region with different fields,
\* written.
C6_Witness ==
    /\ Built(1)
    /\ Len(hosts[1]) = 2
    /\ hosts[1][1].Host = hosts[1][2].Host
    /\ hosts[1][1].Group = hosts[1][2].Group
    /\ hosts[1][1] # hosts[1][2]

-----------------------------------------------------------------------------
(* Claims about the file name and about failures *)

\* C4: when getUniqueInventoryFilename returns, it returns inv.yml if no file
\* of that name exists, and otherwise invN.yml for the least N >= 1 such that
\* no file invN.yml exists: the name returned does not exist and every name
\* probed before it does.
C4_SmallestUnusedName ==
    \A p \in Procs : pc[p] = "build" =>
        IF BaseFilename \notin DOMAIN files
        THEN inventoryFile[p] = BaseFilename
        ELSE \E N \in 1..ProbeCap :
                /\ inventoryFile[p] = NumberedFilename(N)
                /\ NumberedFilename(N) \notin DOMAIN files
                /\ \A M \in 1..(N - 1) : NumberedFilename(M) \in DOMAIN files

\* C4's case: inv.yml and inv1.yml exist, inv2.yml does not, and the probe
\* has returned inv2.yml.
C4_Witness ==
    /\ pc[1] = "build"
    /\ DOMAIN files = {BaseFilename, NumberedFilename(1)}
    /\ inventoryFile[1] = <<"dir", "/", "inv", "2", ".yml">>

\* C7: when MkdirAll fails, CreateInventoryFile returns the empty path and the
\* directory error after one call of MkdirAll, no Stat and no WriteFile; when
\* WriteFile fails, it returns the empty path and the write error after one
\* call of MkdirAll and one call of WriteFile.
C7_FailureReturnedOnce ==
    \A p \in Procs : pc[p] = "done" =>
        /\ fault[p] = "mkdir" =>
              /\ ret[p] = [path |-> <<>>, err |-> MkdirErr]
              /\ nMkdir[p] = 1 /\ nStat[p] = 0 /\ nWrite[p] = 0
              /\ filename[p] = <<>> /\ inventoryFile[p] = <<>>
        /\ fault[p] = "write" =>
              /\ ret[p] = [path |-> <<>>, err |-> WriteErr]
              /\ nMkdir[p] = 1 /\ nWrite[p] = 1
        /\ fault[p] = "none" => ret[p].err = NoErr /\ ret[p].path = inventoryFile[p]

\* C7's case: MkdirAll has failed in the second invocation, the first having
\* written a file.
C7_Witness ==
    /\ pc[1] = "done"
    /\ fault[1] = "mkdir"
    /\ calls = 2
    /\ BaseFilename \in DOMAIN files

-----------------------------------------------------------------------------
(* Claims about instance discovery *)

\* Both commands have run and the candidate list is complete.
Listed == dpc \in {"found", "read", "done"}

\* The rows of a listing after its first line.
DataRows(rows) == IF rows = <<>> THEN <<>> ELSE Tail(rows)

\* The address fields, as printed, of the data rows whose status field, as
\* printed, is Running.
PrintedAddresses(o) ==
    LET running == SelectSeq(DataRows(o.rows),
                             LAMBDA r : Len(r) >= 3 /\ FieldText(r[2]) = <<"Running">>)
    IN  IF o.err THEN <<>> ELSE [k \in DOMAIN running |-> FieldText(running[k][3])] \o <<>>

\* The lines of docker, as printed, that are not empty.
PrintedNames(o) ==
    LET filled == SelectSeq(o.rows, LAMBDA l : FieldText(l) # <<>>)
    IN  IF o.err THEN <<>> ELSE [k \in DOMAIN filled |-> FieldText(filled[k])] \o <<>>

\* The address fields, without the blanks around them, of the data rows of
\* three fields or more whose status field, without the blanks around it, is
\* Running.
TrimmedAddresses(o) ==
    LET running == SelectSeq(DataRows(o.rows),
                             LAMBDA r : Len(r) >= 3 /\ r[2].text = "Running")
    IN  IF o.err THEN <<>> ELSE [k \in DOMAIN running |-> S(running[k][3].text)] \o <<>>

\* The lines of docker that are not empty, without the blanks around them.
TrimmedNames(o) ==
    LET filled == SelectSeq(o.rows, LAMBDA l : l.pad \/ l.text # "")
    IN  IF o.err THEN <<>> ELSE [k \in DOMAIN filled |-> S(filled[k].text)] \o <<>>

\* C8, as stated: the candidate list is the address field of every data row
\* of multipass whose status field equals Running, in row order, followed by
\* every non-empty line of docker, in line order, the fields and lines taken
\* as printed.
C8_CandidatesAsPrinted ==
    Listed => instances = PrintedAddresses(envA) \o PrintedNames(envB)

\* C8, amended: the candidate list is the address field, without the white
\* space around it, of every data row of multipass of three fields or more
\* whose status field, without the white space around it, equals Running, in
\* row order, followed by every non-empty line of docker without the white
\* space around it, in line order; the candidates are plain strings.
C8_CandidatesTrimmed ==
    Listed => instances = TrimmedAddresses(envA) \o TrimmedNames(envB)

\* C8's case: multipass has printed a header, a padded running row and a
\* running row, docker a padded name and a name, and the list is those four.
C8_Witness ==
    /\ dpc = "found"
    /\ envA = [err |-> FALSE, rows |-> <<HeaderRow, PaddedRow, RunningRow>>]
    /\ envB = [err |-> FALSE, rows |-> <<Padded("c2"), Plain("c1")>>]
    /\ instances = <<<<"10.0.0.6">>, <<"10.0.0.5">>, <<"c2">>, <<"c1">>>>

\* The number a token stands for, for the tokens that are numbers.
NumberTokens == {<<"1">>, <<"2">>, <<"4">>, <<"7">>, <<"0">>, <<"-", "1">>, <<"+", "2">>, <<"0", "3">>}
NumberOf(t) ==
    CASE t = <<"1">> -> 1
      [] t = <<"2">> -> 2
      [] t = <<"4">> -> 4
      [] t = <<"7">> -> 7
      [] t = <<"0">> -> 0
      [] t = <<"-", "1">> -> 0 - 1
      [] t = <<"+", "2">> -> 2
      [] t = <<"0", "3">> -> 3

\* The candidates the tokens typed select: all of them for the one token
\* `all`, otherwise those at the tokens that are numbers of 1..Len(cands), in
\* the order of the tokens.
Chosen(cands, toks) ==
    LET valid == SelectSeq(toks, LAMBDA t : t \in NumberTokens /\ NumberOf(t) \in 1..Len(cands))
    IN  IF toks = <<All>> THEN cands
        ELSE [k \in DOMAIN valid |-> cands[NumberOf(valid[k])]] \o <<>>

\* C9: with a candidate list that is not empty, DiscoverInstances returns the
\* whole list when the line typed is `all`, and otherwise the candidates at
\* the tokens of the line that are indices of 1..len(candidates), in the order
\* typed, the other tokens dropped.
C9_SelectionInTypedOrder ==
    (dpc = "done" /\ instances # <<>>) => selected = Chosen(instances, typed.toks)

\* C9's case: four candidates, `4 2` typed, candidates 4 and 2 returned in
\* that order.
C9_Witness ==
    /\ dpc = "done"
    /\ Len(instances) = 4
    /\ typed.toks = <<<<"4">>, <<"2">>>>
    /\ selected = <<<<"c2">>, <<"10.0.0.6">>>>

\* C10: DiscoverInstances never stops on a failure of a command: docker is
\* run after multipass whatever multipass did; a command that failed gives no
\* candidate, whatever it printed, and the candidates of the other are the
\* list; when the list is not empty the prompt is printed once and the
\* selection typed is returned.
C10_EnumeratorFailureAbsorbed ==
    /\ dpc # "panic"
    /\ dpc \in {"docker", "found", "read", "done"} => invoked[1] = "multipass"
    /\ dpc \in {"found", "read", "done"} =>
          /\ invoked = <<"multipass", "docker">>
          /\ envA.err => instances = TrimmedNames(envB)
          /\ envB.err => instances = TrimmedAddresses(envA)
    /\ (dpc \in {"read", "done"} /\ instances # <<>>) => nPrompt = 1
    /\ (dpc = "done" /\ instances # <<>>) => selected = Chosen(instances, typed.toks)

\* C10's case: multipass has failed after printing a running row, docker has
\* printed a name, and the name has been offered and selected.
C10_Witness ==
    /\ dpc = "done"
    /\ envA = [err |-> TRUE, rows |-> <<HeaderRow, RunningRow>>]
    /\ envB = [err |-> FALSE, rows |-> <<Plain("c1")>>]
    /\ invoked = <<"multipass", "docker">>
    /\ nPrompt = 1
    /\ typed.toks = <<All>>
    /\ selected = <<<<"c1">>>>

-----------------------------------------------------------------------------
(* Claims about the input left to the flow *)

\* The tokens of the line typed, with what is typed between them.
TypedTokens(t) ==
    Concat([k \in DOMAIN t.toks |-> (IF k > 1 THEN t.fmt.sep ELSE <<>>) \o t.toks[k]])

\* C11: when both commands give no candidate, DiscoverInstances returns the
\* empty list, having printed no selection prompt and read nothing: the reader
\* still holds all that was typed, and the line typed first is the line the
\* next question of the flow, the directory of the inventory, reads.
C11_EmptyListReadsNothing ==
    (dpc \in {"done", "asked"} /\ instances = <<>>) =>
        /\ selected = <<>>
        /\ nPrompt = 0
        /\ input = <<>>
        /\ dpc = "done" => stdin = TypedText(typed)
        /\ dpc = "asked" => /\ inventoryDir = TypedTokens(typed)
                            /\ stdin = typed.fmt.rest

\* C11's case: multipass printed no running row, docker failed, and the line
\* `2 1` typed went to the question about the directory.
C11_Witness ==
    /\ dpc = "asked"
    /\ envA = [err |-> FALSE, rows |-> <<HeaderRow, StoppedRow>>]
    /\ envB.err
    /\ instances = <<>>
    /\ inventoryDir = <<"2", " ", "1">>
    /\ stdin = <<"y", "\n">>

-----------------------------------------------------------------------------
(* Claims about the command history *)

\* The entries the history file held at first: those of its well-formed lines.
InitialEntries ==
    LET good == SelectSeq(histInit, LAMBDA l : l.kind \in {"entry", "padded"})
    IN  [k \in DOMAIN good |-> good[k].entry] \o <<>>

\* The last n elements of s, all of s when it has fewer.
Recent(s, n) == [k \in 1..(IF Len(s) < n THEN Len(s) ELSE n) |->
                    s[Len(s) - (IF Len(s) < n THEN Len(s) ELSE n) + k]] \o <<>>

\* C12: once saveNewHistoryEntry has been called, the history file holds, one
\* per line and in append order, the most recent min(5, total) entries among
\* those the file held at first and those appended since: never more than 5,
\* and when there are more than 5 the oldest are the ones dropped.
C12_HistoryKeepsLastFive ==
    appended # <<>> =>
        LET recent == Recent(InitialEntries \o appended, 5)
            lines == Split(histFile.data, "\n")
        IN  /\ histFile.exists
            /\ Len(lines) = Len(recent)
            /\ Len(lines) <= 5
            /\ \A k \in DOMAIN recent : lines[k] = Marshal(recent[k])

\* C12's case: a sixth entry has been appended to a file of five, and the
\* file holds the second to the sixth.
C12_Witness ==
    /\ histInit = <<>>
    /\ appended = <<EntryOne, EntryTwo, EntryTwo, EntryOne, EntryOne, EntryTwo>>
    /\ histFile.data = HistoryText(<<EntryTwo, EntryTwo, EntryOne, EntryOne, EntryTwo>>)

\* runPlaybook has loaded the history.
Loaded == rpc \notin {"idle", "load"}

\* C13: loadHistory returns the entries of the well-formed lines of the file,
\* in file order, whatever lines stand between them; when the file cannot be
\* read, runPlaybook prints a warning, has no entry, offers no choice and goes
\* on with the fresh flow, and each later saveNewHistoryEntry warns and leaves
\* the file holding the entry appended and nothing else.
C13_HistoryLoadDegrades ==
    Loaded =>
        /\ histReadable => /\ historyEntries = Recent(InitialEntries, 5)
                           /\ nWarn = 0
        /\ ~histReadable =>
              /\ historyEntries = <<>>
              /\ flow # "reuse"
              /\ rpc \in {"ask", "exited", "save", "exec", "again", "rerun", "done"}
              /\ nWarn = 1 + Len(appended)
              /\ appended # <<>> =>
                    histFile = [exists |-> TRUE, data |-> Marshal(appended[Len(appended)])]

\* C13's case: the file, of an entry and another line, cannot be read; the
\* run has gone through the fresh flow and its re-run, and the file holds the
\* entry of the re-run alone.
C13_Witness ==
    /\ rpc = "done"
    /\ ~histReadable
    /\ Len(InitialEntries) = 1
    /\ Len(histInit) = 2
    /\ Len(appended) = 2
    /\ nWarn = 3
    /\ histFile.data = Marshal([InventoryFile |-> "inv.yml", Playbooks |-> <<"a.yml">>,
                                DryRun |-> FALSE])

\* The file of a line that is not JSON and a padded entry has been loaded as
\* the one entry.
C13_SkippedLineReached ==
    /\ Loaded
    /\ histReadable
    /\ histInit = <<HistLine("garbage", EntryNone), HistLine("padded", EntryTwo)>>
    /\ historyEntries = <<EntryTwo>>

-----------------------------------------------------------------------------
(* Claims about running playbooks *)

\* The playbooks of the commands of a pass, in the order they were run.
PassPlaybooks(pass) ==
    LET run == SelectSeq(execLog, LAMBDA c : c.pass = pass)
    IN  [k \in DOMAIN run |-> run[k].playbook] \o <<>>

\* C14: when runPlaybook returns, the commands of its pass over the playbooks
\* are one per playbook, in list order, whichever of them failed; and so are
\* the commands of each re-run.
C14_FailureDoesNotAbort ==
    rpc = "done" =>
        /\ PassPlaybooks(IF flow = "reuse" THEN ReusePass ELSE FreshPass) = runPlaybooks
        /\ \A n \in 1..Len(runPlaybooks) :
              PassPlaybooks(RerunPass(n)) \in {<<>>, runPlaybooks}
        /\ \A k \in DOMAIN execLog : execLog[k].name = "ansible-playbook"

\* C14's case: the first of two playbooks has failed and the second has run.
C14_Witness ==
    /\ rpc = "done"
    /\ flow = "fresh"
    /\ runPlaybooks = <<"a.yml", "b.yml">>
    /\ Len(execLog) = 2
    /\ execLog[1].failed
    /\ execLog[2].playbook = "b.yml"

\* C15: every command ExecuteAnsiblePlaybook runs is ansible-playbook with the
\* arguments -i, the inventory, the playbook, then --extra-vars and the
\* variable for each extra variable in order, then --check when dryRun is set
\* and only then, and nothing else.
C15_ArgumentList ==
    \A k \in DOMAIN execLog :
        LET c == execLog[k]
            n == Len(c.extra)
        IN  /\ c.name = "ansible-playbook"
            /\ Len(c.args) = 3 + 2 * n + (IF c.dryRun THEN 1 ELSE 0)
            /\ c.args[1] = "-i" /\ c.args[2] = c.inventory /\ c.args[3] = c.playbook
            /\ \A j \in 1..n : c.args[2 + 2 * j] = "--extra-vars" /\ c.args[3 + 2 * j] = c.extra[j]
            /\ c.dryRun => c.args[Len(c.args)] = "--check"
            /\ ~c.dryRun => \A j \in DOMAIN c.args : c.args[j] # "--check"

\* C15's case: a command with two extra variables in dry-run mode.
C15_Witness ==
    /\ Len(execLog) = 1
    /\ execLog[1].extra = <<"k2=v2", "k1=v1">>
    /\ execLog[1].dryRun
    /\ execLog[1].args = <<"-i", "hosts", "b.yml", "--extra-vars", "k2=v2",
                           "--extra-vars", "k1=v1", "--check">>

\* The commands of the pass `pass` among the first n commands run.
PassCount(pass, n) == Cardinality({k \in 1..n : execLog[k].pass = pass})

\* C17, as stated: every save of a run comes after the playbooks of its pass
\* have been invoked, all of them; and when the run returns each pass that ran
\* has been saved once.
C17_SavedAfterExecution ==
    /\ \A k \in DOMAIN saveLog :
          PassCount(saveLog[k].pass, saveLog[k].after) = Len(runPlaybooks)
    /\ rpc = "done" =>
          \A pass \in {FreshPass, ReusePass} \cup {RerunPass(n) : n \in 1..Len(runPlaybooks)} :
              PassCount(pass, Len(execLog)) > 0 =>
                  Cardinality({k \in DOMAIN saveLog : saveLog[k].pass = pass}) = 1

\* What holds of C17: the saves of a history entry reused and of a re-run come
\* after the playbooks of their pass, once each; the save of the fresh flow
\* comes once, before any command.
C17_SavedAfterReuseAndRerun ==
    /\ \A k \in DOMAIN saveLog :
          IF saveLog[k].pass = FreshPass
          THEN saveLog[k].after = 0 /\ k = 1
          ELSE PassCount(saveLog[k].pass, saveLog[k].after) = Len(runPlaybooks)
    /\ rpc = "done" =>
          \A pass \in {FreshPass, ReusePass} \cup {RerunPass(n) : n \in 1..Len(runPlaybooks)} :
              PassCount(pass, Len(execLog)) > 0 =>
                  Cardinality({k \in DOMAIN saveLog : saveLog[k].pass = pass}) = 1

\* C17's case: the fresh flow has saved its entry and no playbook has run yet.
C17_Witness ==
    /\ rpc = "exec"
    /\ flow = "fresh"
    /\ runPlaybooks = <<"a.yml">>
    /\ execLog = <<>>
    /\ Len(appended) = 1
    /\ histFile.exists


\* The files an invocation is between opening and closing.
BeingWritten == {inventoryFile[p] : p \in {q \in Procs : pc[q] = "write"}}

\* The paths returned with no error so far.
ReturnedPaths == {returned[i].path : i \in DOMAIN returned}

\* The last document returned for a path.
LastReturned(path) ==
    returned[CHOOSE i \in DOMAIN returned :
                /\ returned[i].path = path
                /\ \A j \in DOMAIN returned : returned[j].path = path => j <= i].document

\* C16, as stated: at every time the path CreateInventoryFile has computed
\* does not exist or holds the whole document, whether or not the write fails.
C16_PathAbsentOrComplete ==
    \A p \in Procs :
        inventoryFile[p] # <<>> =>
            \/ inventoryFile[p] \notin DOMAIN files
            \/ /\ inventoryContent[p] # <<>>
               /\ files[inventoryFile[p]] = inventoryContent[p]

\* C16's case: the write has failed midway and CreateInventoryFile has
\* returned its error; the path holds a part of the document, not all of it.
C16_Witness ==
    \E p \in Procs :
        /\ pc[p] = "done"
        /\ fault[p] = "write"
        /\ ret[p].err = WriteErr
        /\ inventoryFile[p] \in DOMAIN files
        /\ files[inventoryFile[p]] # <<>>
        /\ files[inventoryFile[p]] # inventoryContent[p]

\* What holds of the write: when CreateInventoryFile has returned a path, the
\* path holds the whole document.
C16_CompleteOnSuccess ==
    \A p \in Procs :
        (pc[p] = "done" /\ ret[p].err = NoErr) =>
            /\ ret[p].path = inventoryFile[p]
            /\ files[ret[p].path] = inventoryContent[p]

\* C18, as stated: with two invocations at once and nothing failing, every
\* invocation that has returned has returned the path it computed and no
\* error, and a path returned, unless an invocation has it open, holds the
\* document of the invocation that wrote it last.
C18_LastWriterWins ==
    /\ \A p \in Procs :
          pc[p] = "done" => ret[p] = [path |-> inventoryFile[p], err |-> NoErr]
    /\ \A path \in ReturnedPaths \ BeingWritten :
          /\ path \in DOMAIN files
          /\ files[path] = LastReturned(path)

\* C18's case: both invocations have computed the same path and returned it
\* with no error, their documents differ, and the file holds the first
\* document written and not the second.
C18_Witness ==
    /\ pc[1] = "done" /\ pc[2] = "done"
    /\ ret[1].err = NoErr /\ ret[2].err = NoErr
    /\ ret[1].path = ret[2].path
    /\ Len(returned) = 2
    /\ returned[1].path = returned[2].path
    /\ returned[1].document # returned[2].document
    /\ files[ret[1].path] = returned[1].document

\* The race of the claim: both invocations have computed the same path and
\* returned it with no error, their documents differ, and the file holds the
\* second document written; the first is in no file.
C18_SecondWriterReached ==
    /\ pc[1] = "done" /\ pc[2] = "done"
    /\ ret[1].err = NoErr /\ ret[2].err = NoErr
    /\ ret[1].path = ret[2].path
    /\ Len(returned) = 2
    /\ returned[1].document # returned[2].document
    /\ files[ret[1].path] = returned[2].document
    /\ \A x \in DOMAIN files : files[x] # returned[1].document

\* What holds of the race: every invocation that has returned has returned the
\* path it computed and no error, and a path returned, unless an invocation
\* has it open, starts with the document of the invocation that wrote it last.
C18_LastWriterFirst ==
    /\ \A p \in Procs :
          pc[p] = "done" => ret[p] = [path |-> inventoryFile[p], err |-> NoErr]
    /\ \A path \in ReturnedPaths \ BeingWritten :
          /\ path \in DOMAIN files
          /\ Prefix(files[path], Len(LastReturned(path))) = LastReturned(path)

\* C19: with one invocation at a time, the files present before the first
\* invocation are present and hold what they held, the paths returned with no
\* error are as many as the returns, none is a file present before, and each
\* holds the document of its invocation.
C19_SequentialBuildsDoNotCollide ==
    /\ \A x \in DOMAIN files0 : x \in DOMAIN files /\ files[x] = files0[x]
    /\ Cardinality(ReturnedPaths) = Len(returned)
    /\ \A i \in DOMAIN returned :
          /\ returned[i].path \notin DOMAIN files0
          /\ returned[i].path \in DOMAIN files
          /\ files[returned[i].path] = returned[i].document

\* C19's case: inv.yml was present, and two invocations have returned a path
\* with no error.
C19_Witness ==
    /\ BaseFilename \in DOMAIN files0
    /\ Len(returned) = 2
    /\ pc[1] = "done"
    /\ ret[1].err = NoErr

\* C20, as stated: the probe of every invocation ends, whatever Stat answers.
C20_ProbeTerminates ==
    \A p \in Procs : (pc[p] = "probe") ~> (pc[p] # "probe")

\* C20's case: Stat fails for every name, each name has been judged to exist,
\* and the probe is still going after every increment followed.
C20_Witness ==
    \E p \in Procs :
        /\ statErr
        /\ pc[p] = "probe"
        /\ nStat[p] = ProbeCap
        /\ counter[p] = ProbeCap + 1

\* What holds of the probe: when Stat fails for no name other than with "does
\* not exist", the probe ends and the invocation returns.
C20_ProbeTerminatesWhenStatAnswers ==
    \A p \in Procs : (pc[p] = "probe" /\ ~statErr) ~> (pc[p] = "done")


-----------------------------------------------------------------------------
(* Claims about the order of the document *)

\* The HostConfigs of the entries of a document that stand in region r, in
\* document order.
RegionConfigs(doc, r) ==
    LET es == SelectSeq(Entries(doc), LAMBDA e : e.region = r)
    IN  [i \in DOMAIN es |-> EntryConfig(es[i])] \o <<>>

\* C21: in the document written, the entries of the top-level region are the
\* hosts with an empty group in input order, and the entries under
\* children.g.hosts are the hosts with the group g in input order, for every
\* label g, in whatever order the groups are written.
C21_InputOrderInEachRegion ==
    \A p \in Procs : Built(p) =>
        \A g \in GroupLabels :
            RegionConfigs(Written(p), RegionOf(g))
              = SelectSeq(hosts[p], LAMBDA c : c.Group = g)

\* C21's case: two different hosts of one group, written.
C21_Witness ==
    /\ Built(1)
    /\ Len(hosts[1]) = 2
    /\ hosts[1][1].Group = "web"
    /\ hosts[1][2].Group = "web"
    /\ hosts[1][1].Host # hosts[1][2].Host

\* The order among the groups is not the input's: the group of the second host
\* is written before the group of the first.
C21_GroupsOutOfInputOrder ==
    /\ Built(1)
    /\ Len(hosts[1]) = 2
    /\ hosts[1][1].Group = "web"
    /\ hosts[1][2].Group = "Web"
    /\ Len(Entries(Written(1))) = 2
    /\ Entries(Written(1))[1].region = ChildRegion(<<"Web">>)
    /\ Entries(Written(1))[2].region = ChildRegion(<<"web">>)


-----------------------------------------------------------------------------
(* Claims about the listing of multipass *)

\* multipass has just run and has not failed.
AListed == dpc = "docker" /\ ~envA.err

\* C22: DiscoverInstances never indexes past the lines of multipass's output;
\* when multipass succeeds with no output or with one line, whatever the line,
\* it gives no candidate; and the candidates it gives are taken from the rows
\* after the first that have three fields or more, a shorter row giving none.
C22_FirstLineSkippedSafely ==
    /\ dpc # "panic"
    /\ AListed =>
          /\ Len(envA.rows) <= 1 => instances = <<>>
          /\ instances = TrimmedAddresses(envA)
          /\ Len(instances) <= Cardinality({k \in DOMAIN envA.rows : k > 1 /\ Len(envA.rows[k]) >= 3})

\* C22's case: multipass has succeeded with no output at all, and docker is
\* about to run with no candidate.
C22_Witness ==
    /\ AListed
    /\ invoked = <<"multipass">>
    /\ envA.rows = <<>>
    /\ ListingText(envA.rows) = <<>>
    /\ instances = <<>>

\* The other cases of C22: only a line, which is a running row, and no
\* candidate; a header, a row cut after its status and a running row, and the
\* one candidate of the running row.
C22_OnlyLineSkipped ==
    /\ AListed
    /\ envA.rows = <<RunningRow>>
    /\ instances = <<>>

C22_ShortRowIgnored ==
    /\ AListed
    /\ envA.rows = <<HeaderRow, ShortRow, RunningRow>>
    /\ instances = <<<<"10.0.0.5">>>>


-----------------------------------------------------------------------------
(* Claims about the re-run without dry-run *)

\* The command c has --check among its arguments.
HasCheck(c) == \E i \in DOMAIN c.args : c.args[i] = "--check"

\* The commands with --check among the first n commands run.
DryCount(n) == Cardinality({k \in 1..n : HasCheck(execLog[k])})

\* The commands without --check run on the playbook, so far.
LiveCount(playbook) ==
    Cardinality({k \in DOMAIN execLog : ~HasCheck(execLog[k]) /\ execLog[k].playbook = playbook})

\* The prompts answered yes.
Yeses == {k \in DOMAIN asked : asked[k].yes}

\* The re-run asked for at the k-th prompt is over.
RerunOver(k) == k < Len(asked) \/ rpc \in {"exec", "done"}

\* C23: in the fresh flow with dry-run, the k-th prompt comes right after the
\* dry-run command of the k-th playbook and before any other command; after a
\* yes the next commands are the whole list in list order without --check,
\* then one save of the entry with DryRun false, and only then the dry-run of
\* the next playbook; when the run returns every playbook has had its prompt
\* and has run without --check once for each yes.  In the fresh flow without
\* dry-run there is no prompt, and when the run returns the commands are one
\* for each playbook, in list order, without --check.
C23_RerunAfterEachDryRun ==
    flow = "fresh" =>
        LET n == Len(runPlaybooks)
        IN  /\ ~runDryRun =>
                 /\ asked = <<>>
                 /\ \A k \in DOMAIN execLog : ~HasCheck(execLog[k])
                 /\ rpc = "done" =>
                       [k \in DOMAIN execLog |-> execLog[k].playbook] \o <<>> = runPlaybooks
            /\ runDryRun =>
                 /\ DryCount(Len(execLog)) \in {Len(asked), Len(asked) + 1}
                 /\ (rpc = "again") = (DryCount(Len(execLog)) = Len(asked) + 1)
                 /\ \A k \in DOMAIN asked :
                       LET a == asked[k].after
                       IN  /\ a \in DOMAIN execLog
                           /\ HasCheck(execLog[a])
                           /\ DryCount(a) = k
                           /\ k <= n /\ execLog[a].playbook = runPlaybooks[k]
                           /\ ~asked[k].yes =>
                                 (a + 1 \in DOMAIN execLog => HasCheck(execLog[a + 1]))
                           /\ (asked[k].yes /\ RerunOver(k)) =>
                                 /\ a + n <= Len(execLog)
                                 /\ \A i \in 1..n :
                                       /\ ~HasCheck(execLog[a + i])
                                       /\ execLog[a + i].playbook = runPlaybooks[i]
                                       /\ execLog[a + i].inventory = runInventory
                                 /\ (a + n + 1 \in DOMAIN execLog => HasCheck(execLog[a + n + 1]))
                                 /\ Len(appended) = Len(saveLog)
                                 /\ Cardinality({j \in DOMAIN saveLog : saveLog[j].after = a + n}) = 1
                                 /\ \A j \in DOMAIN saveLog :
                                       saveLog[j].after = a + n =>
                                           appended[j] = [InventoryFile |-> runInventory,
                                                          Playbooks |-> runPlaybooks,
                                                          DryRun |-> FALSE]
                 /\ rpc = "done" =>
                       /\ Len(asked) = n
                       /\ Len(execLog) = n + Cardinality(Yeses) * n
                       /\ Len(saveLog) = 1 + Cardinality(Yeses)
                       /\ \A i \in 1..n : LiveCount(runPlaybooks[i]) = Cardinality(Yeses)

\* C23's case: a fresh dry-run over two playbooks has returned, yes having
\* been answered to both prompts: six commands, four of them without --check.
C23_Witness ==
    /\ rpc = "done"
    /\ flow = "fresh"
    /\ runDryRun
    /\ runPlaybooks = <<"a.yml", "b.yml">>
    /\ Len(asked) = 2
    /\ Yeses = {1, 2}
    /\ Len(execLog) = 6
    /\ LiveCount("a.yml") = 2
    /\ LiveCount("b.yml") = 2

\* The other case of C23: a fresh run without dry-run over two playbooks has
\* returned, with two commands and no prompt.
C23_NoPromptWithoutDryRun ==
    /\ rpc = "done"
    /\ flow = "fresh"
    /\ ~runDryRun
    /\ runPlaybooks = <<"a.yml", "b.yml">>
    /\ asked = <<>>
    /\ Len(execLog) = 2

====
